---------------------------- MODULE Spec2Model ----------------------------
(***************************************************************************)
(* A model of inspect_harbor: the Harbor scorer (src/inspect_harbor/       *)
(* _scorer.py), its reward-file parser, the oracle solver                  *)
(* (src/inspect_harbor/harbor/_solver.py), the sandbox helpers they call   *)
(* (src/inspect_harbor/harbor/_sandbox_utils.py), the environment          *)
(* converter (src/inspect_harbor/harbor/_converters.py) and the task       *)
(* loader (src/inspect_harbor/harbor/_task.py).                            *)
(*                                                                         *)
(* Text is modelled as sequences of one-character strings, floats as       *)
(* integers counting units of 10^-MaxTxtLen, local and sandbox paths as    *)
(* sequences of path components.                                           *)
(***************************************************************************)
EXTENDS Integers, Sequences, FiniteSets, TLC

VARIABLES
    metadata,   \* state.metadata of the sample being scored
    sbx,        \* the sandbox file system: copied files and the two reward files
    calls,      \* the sandbox calls issued by the current run, in order
    pc,         \* position of the running coroutine
    todo,       \* files copy_directory_to_sandbox has still to write
    result,     \* ExecResult of the verifier script
    parsed,     \* what _parse_reward_file returned or raised
    outcome,    \* what score() or solve() returned or raised
    pending,    \* cleanup paths or variable names still to be removed
    written,    \* the reward files the current run's verifier has written
    environ,    \* os.environ of the host
    env_dict,   \* the map handed to resolve_env_vars
    resolved,   \* what resolve_env_vars returned or raised
    tree,       \* the local directory handed to copy_directory_to_sandbox
    dest,       \* the container path it is copied to
    files,      \* the sandbox files written by that copy, path to bytes
    harbor_task,    \* the task handed to harbor_to_compose_config
    overrides,      \* its override_cpus, override_memory_mb, override_gpus
    compose_config, \* what harbor_to_compose_config returned or raised
    kwargs,     \* the arguments of load_harbor_tasks
    load_result \* the loader calls it made and how it ended

scoreVars == <<metadata, sbx, calls, pc, todo, result, parsed, outcome, pending, written>>
envVars == <<environ, env_dict, resolved>>
copyVars == <<tree, dest, files>>
convVars == <<harbor_task, overrides, compose_config>>
loadVars == <<kwargs, load_result>>
vars == <<metadata, sbx, calls, pc, todo, result, parsed, outcome, pending, written,
          environ, env_dict, resolved, tree, dest, files,
          harbor_task, overrides, compose_config, kwargs, load_result>>

\* the variables of the converter and of the loader before any call
NoTask == [given |-> FALSE]
NoOverrides == [given |-> FALSE]
NotConverted == [kind |-> "none"]
NoKwargs == [given |-> FALSE]
NotLoaded == [kind |-> "none", calls |-> <<>>]

(***************************************************************************)
(* Bounds of the model.                                                    *)
(***************************************************************************)
MaxTxtLen == 3      \* longest reward.txt content explored, in characters
MaxPairs == 2       \* most key/value pairs in a reward.json object

\* ------------------------------------------------------------------ text

Chars == {" ", "0", "1", ".", "-", "x"}
Whitespace == {" "}
Digits == {"0", "1"}

RECURSIVE SeqsUpTo(_, _)
SeqsUpTo(S, n) ==
    IF n = 0 THEN {<<>>}
    ELSE LET shorter == SeqsUpTo(S, n - 1)
         IN  shorter \cup {Append(s, c) : s \in {t \in shorter : Len(t) = n - 1}, c \in S}

RECURSIVE Pow10(_)
Pow10(n) == IF n = 0 THEN 1 ELSE 10 * Pow10(n - 1)

\* one float unit: floats are integers counting 10^-MaxTxtLen
Units == Pow10(MaxTxtLen)

RECURSIVE LStrip(_)
LStrip(s) == IF s # <<>> /\ Head(s) \in Whitespace THEN LStrip(Tail(s)) ELSE s

RECURSIVE RStrip(_)
RStrip(s) ==
    IF s # <<>> /\ s[Len(s)] \in Whitespace THEN RStrip(SubSeq(s, 1, Len(s) - 1)) ELSE s

\* str.strip()
Strip(s) == RStrip(LStrip(s))

DigitVal(c) == IF c = "1" THEN 1 ELSE 0

RECURSIVE DigitsVal(_)
DigitsVal(s) ==
    IF s = <<>> THEN 0 ELSE 10 * DigitsVal(SubSeq(s, 1, Len(s) - 1)) + DigitVal(s[Len(s)])

AllDigits(s) == \A i \in 1..Len(s) : s[i] \in Digits

DotAt(s) == IF \E i \in 1..Len(s) : s[i] = "."
            THEN CHOOSE i \in 1..Len(s) : s[i] = "." /\ \A j \in 1..(i - 1) : s[j] # "."
            ELSE 0

\* float(str): surrounding whitespace is ignored, then an optional sign and a
\* decimal numeral with at least one digit; anything else is a ValueError.
FloatOfStr(str) ==
    LET s    == Strip(str)
        neg  == s # <<>> /\ Head(s) = "-"
        body == IF neg THEN Tail(s) ELSE s
        dot  == DotAt(body)
        ip   == IF dot = 0 THEN body ELSE SubSeq(body, 1, dot - 1)
        fp   == IF dot = 0 THEN <<>> ELSE SubSeq(body, dot + 1, Len(body))
        good == /\ AllDigits(ip) /\ AllDigits(fp)
                /\ Len(ip) + Len(fp) > 0
                /\ Len(fp) <= MaxTxtLen    \* finer fractions are not representable here
        mag  == DigitsVal(ip) * Units + DigitsVal(fp) * Pow10(MaxTxtLen - Len(fp))
    IN  IF good THEN [ok |-> TRUE, v |-> IF neg THEN 0 - mag ELSE mag, exc |-> "none"]
        ELSE [ok |-> FALSE, v |-> 0, exc |-> "ValueError"]

\* ------------------------------------------------------------ exceptions

\* the base class of each exception class that can arise (Python's hierarchy
\* and the classes _scorer.py declares)
Parent(cls) ==
    CASE cls = "RewardFileNotFoundError" -> "FileNotFoundError"
      [] cls = "FileNotFoundError"       -> "OSError"
      [] cls = "PermissionError"         -> "OSError"
      [] cls = "TimeoutError"            -> "OSError"
      [] cls = "JSONDecodeError"         -> "ValueError"
      [] cls = "UnicodeDecodeError"      -> "ValueError"
      [] cls = "OverflowError"           -> "ArithmeticError"
      [] OTHER                           -> "Exception"

RECURSIVE IsInstance(_, _)
IsInstance(cls, base) ==
    \/ cls = base
    \/ cls # "Exception" /\ IsInstance(Parent(cls), base)

Caught(cls, bases) == \E b \in bases : IsInstance(cls, b)

\* ------------------------------------------------------------------ JSON

\* a Python value as json.loads produces it
PyVal(t, v, s) == [t |-> t, v |-> v, s |-> s]
PyInt(n)    == PyVal("int", n * Units, <<>>)
PyFloat(u)  == PyVal("float", u, <<>>)
PyStr(s)    == PyVal("str", 0, s)
PyNone      == PyVal("NoneType", 0, <<>>)
PyList      == PyVal("list", 0, <<>>)
\* an int beyond the range of a double, e.g. 10**400
PyBigInt    == PyVal("bigint", 0, <<>>)

Keys == {"reward", "score"}
JVals == {PyInt(1), PyInt(0), PyFloat(Units \div 2), PyStr(<<"1">>), PyStr(<<"x">>),
          PyNone, PyBigInt}
JPairs == {<<k, v>> : k \in Keys, v \in JVals}

\* the text of a reward.json file: blank, not JSON at all, a JSON object
\* written as its sequence of members (keys may repeat), or another JSON value
JsonBlank(n) == [k |-> "blank", ws |-> n, members |-> <<>>, val |-> PyNone]
JsonGarbage  == [k |-> "garbage", ws |-> 0, members |-> <<>>, val |-> PyNone]
JsonObject(ms) == [k |-> "object", ws |-> 0, members |-> ms, val |-> PyNone]
JsonScalar(v) == [k |-> "value", ws |-> 0, members |-> <<>>, val |-> v]

JsonTexts ==
    {JsonBlank(n) : n \in 0..1} \cup {JsonGarbage}
    \cup {JsonObject(ms) : ms \in SeqsUpTo(JPairs, MaxPairs)}
    \cup {JsonScalar(v) : v \in {PyInt(1), PyStr(<<"1">>), PyNone, PyList}}

\* str.strip() of the file's text is empty
JsonIsBlank(text) == text.k = "blank"

DictKeys(items) == {items[i][1] : i \in 1..Len(items)}

\* dict[k] = v: a new key is appended, an existing key keeps its position
DictSet(items, k, v) ==
    IF k \in DictKeys(items)
    THEN [i \in 1..Len(items) |-> IF items[i][1] = k THEN <<k, v>> ELSE items[i]]
    ELSE Append(items, <<k, v>>)

RECURSIVE DictOfMembers(_)
DictOfMembers(ms) ==
    IF ms = <<>> THEN <<>>
    ELSE LET n == Len(ms)
         IN  DictSet(DictOfMembers(SubSeq(ms, 1, n - 1)), ms[n][1], ms[n][2])

DictGet(items, k) == items[CHOOSE i \in 1..Len(items) : items[i][1] = k][2]

\* json.loads(text) for a non-blank text
JsonLoads(text) ==
    CASE text.k = "garbage" -> [ok |-> FALSE, exc |-> "JSONDecodeError", isdict |-> FALSE,
                                items |-> <<>>, val |-> PyNone]
      [] text.k = "object"  -> [ok |-> TRUE, exc |-> "none", isdict |-> TRUE,
                                items |-> DictOfMembers(text.members), val |-> PyNone]
      [] OTHER              -> [ok |-> TRUE, exc |-> "none", isdict |-> FALSE,
                                items |-> <<>>, val |-> text.val]

\* float(x) for a Python value x
FloatOf(x) ==
    CASE x.t \in {"int", "float"} -> [ok |-> TRUE, v |-> x.v, exc |-> "none"]
      [] x.t = "str"              -> FloatOfStr(x.s)
      [] x.t = "bigint"           -> [ok |-> FALSE, v |-> 0, exc |-> "OverflowError"]
      [] OTHER                    -> [ok |-> FALSE, v |-> 0, exc |-> "TypeError"]

\* ------------------------------------------------------ resolve_env_vars

MaxEnvLen == 5      \* longest environment value explored, in characters

\* environment values are texts over these characters
EnvChars == {"$", "{", "}", "A", "B"}

\* where a match of \$\{([^}]+)\} that starts at the first character of
\* value ends: at the first "}" after a non-empty name; 0 when there is none
MatchEnd(value) ==
    IF /\ Len(value) >= 4
       /\ value[1] = "$"
       /\ value[2] = "{"
       /\ value[3] # "}"
       /\ \E j \in 4..Len(value) : value[j] = "}"
    THEN CHOOSE j \in 4..Len(value) :
            value[j] = "}" /\ \A i \in 4..(j - 1) : value[i] # "}"
    ELSE 0

\* pattern.match(value): the pattern only has to match a prefix
PrefixMatch(value) == MatchEnd(value) > 0

\* pattern.fullmatch(value)
FullMatch(value) == MatchEnd(value) > 0 /\ MatchEnd(value) = Len(value)

\* match.group(1), the variable name
Group1(value) == SubSeq(value, 3, MatchEnd(value) - 1)

\* what resolve_env_vars hands back: no call yet, the new dict, or the
\* ValueError naming the variable that is not set
NoEnv == [kind |-> "none", items |-> <<>>, name |-> <<>>]
EnvDict(items) == [kind |-> "dict", items |-> items, name |-> <<>>]
EnvMissing(name) == [kind |-> "raise", items |-> <<>>, name |-> name]

\* lines 57-65: the loop over env_dict.items(), acc being `resolved` so far
RECURSIVE ResolveItems(_, _)
ResolveItems(items, acc) ==
    IF items = <<>>
    THEN EnvDict(acc)
    ELSE LET key == Head(items)[1]
             value == Head(items)[2]
         IN  IF FullMatch(value)
             THEN IF Group1(value) \notin DOMAIN environ
                  THEN EnvMissing(Group1(value))
                  ELSE ResolveItems(Tail(items),
                                    DictSet(acc, key, environ[Group1(value)]))
             ELSE ResolveItems(Tail(items), DictSet(acc, key, value))

resolve_env_vars(d) == ResolveItems(d, <<>>)

\* the host environment of the scoring and oracle runs: A is set, B is not
HostEnviron == (<<"A">> :> <<"B", "B">>)

\* --------------------------------------------------------------- sandbox

\* container paths, as sequences of components below the root
TestsRoot == <<"tests">>
VerifierLogs == <<"logs", "verifier">>
SolutionRoot == <<"solution">>
reward_text_path == <<"logs", "verifier", "reward.txt">>
reward_json_path == <<"logs", "verifier", "reward.json">>

\* a file of the sandbox: absent, a readable text file, or not readable
FileAbsent(none) == [st |-> "absent", text |-> none]
FileDenied(none) == [st |-> "denied", text |-> none]
FileWith(text)   == [st |-> "file", text |-> text]

NoTxt == FileAbsent(<<>>)
NoJson == FileAbsent(JsonBlank(0))

\* the calls made on the sandbox handle
WriteCall(path) == [op |-> "write_file", cmd |-> <<>>, path |-> path, timeout |-> {}, env |-> {}]
ReadCall(path)  == [op |-> "read_file", cmd |-> <<>>, path |-> path, timeout |-> {}, env |-> {}]
ExecCall(cmd, path, timeout, env) ==
    [op |-> "exec", cmd |-> cmd, path |-> path, timeout |-> timeout, env |-> env]

\* sandbox().read_file(path): the text, or the exception it raises
ReadFile(f) ==
    CASE f.st = "absent" -> [ok |-> FALSE, exc |-> "FileNotFoundError"]
      [] f.st = "denied" -> [ok |-> FALSE, exc |-> "PermissionError"]
      [] OTHER           -> [ok |-> TRUE, exc |-> "none"]

\* ------------------------------------------------------ _parse_reward_file

\* what a coroutine hands to its caller: a returned (value, detail) pair, or
\* a raised exception with the file its message names and the exit code it
\* embeds (each as a set, empty when the message has none)
Return(value, detail) ==
    [kind |-> "return", value |-> value, detail |-> detail, exc |-> "none",
     about |-> {}, code |-> {}]
Raise(cls, about, code) ==
    [kind |-> "raise", value |-> 0, detail |-> {}, exc |-> cls,
     about |-> about, code |-> code]
NotParsed == [kind |-> "none", value |-> 0, detail |-> {}, exc |-> "none",
              about |-> {}, code |-> {}]

\* lines 116-121: float() of the stripped text, ValueError and TypeError
\* become VerifierOutputParseError
TxtFloat(content) ==
    LET f == FloatOfStr(Strip(content))
    IN  IF f.ok THEN Return(f.v, {})
        ELSE IF Caught(f.exc, {"ValueError", "TypeError"})
             THEN Raise("VerifierOutputParseError", {reward_text_path}, {})
             ELSE Raise(f.exc, {}, {})

\* lines 112-121: the body of the outer try, given the reward.txt file
TxtBody(file) ==
    LET r == ReadFile(file)
    IN  IF ~r.ok THEN Raise(r.exc, {}, {})
        ELSE IF Strip(file.text) = <<>>
             THEN Raise("RewardFileEmptyError", {reward_text_path}, {})
             ELSE TxtFloat(file.text)

\* a selection that always takes the first value
JsonSelectFirst(loaded) ==
    IF loaded.isdict /\ loaded.items # <<>>
    THEN LET f == FloatOf(loaded.items[1][2])
         IN  IF f.ok THEN Return(f.v, {loaded.items}) ELSE Raise(f.exc, {}, {})
    ELSE Raise("VerifierOutputParseError", {reward_json_path}, {})

\* lines 132-140: the scalar selected from the loaded value
JsonSelect(loaded) ==
    IF loaded.isdict /\ "reward" \in DictKeys(loaded.items)
    THEN LET f == FloatOf(DictGet(loaded.items, "reward"))
         IN  IF f.ok THEN Return(f.v, {loaded.items}) ELSE Raise(f.exc, {}, {})
    ELSE IF loaded.isdict /\ loaded.items # <<>>
    THEN LET f == FloatOf(loaded.items[1][2])
         IN  IF f.ok THEN Return(f.v, {loaded.items}) ELSE Raise(f.exc, {}, {})
    ELSE Raise("VerifierOutputParseError", {reward_json_path}, {})

\* lines 129-144: the inner try of the JSON branch
JsonInner(text) ==
    LET loaded == JsonLoads(text)
        r == IF loaded.ok THEN JsonSelect(loaded) ELSE Raise(loaded.exc, {}, {})
    IN  IF r.kind = "raise" /\ Caught(r.exc, {"ValueError", "TypeError", "JSONDecodeError"})
        THEN Raise("VerifierOutputParseError", {reward_json_path}, {})
        ELSE r

\* lines 125-144: the body of the try of the JSON branch, given reward.json
JsonBody(file) ==
    LET r == ReadFile(file)
    IN  IF ~r.ok THEN Raise(r.exc, {}, {})
        ELSE IF JsonIsBlank(file.text)
             THEN Raise("RewardFileEmptyError", {reward_json_path}, {})
             ELSE JsonInner(file.text)

\* a handler that catches every exception of the reward.txt branch
TxtMissingAny(r) == r.kind = "raise"

\* line 123: except FileNotFoundError
TxtMissing(r) == r.kind = "raise" /\ Caught(r.exc, {"FileNotFoundError"})

\* a handler that catches every exception of the reward.json branch
JsonMissingAny(r) == r.kind = "raise"

\* lines 146-150: except FileNotFoundError, naming both paths and the exit code
JsonMissing(r) == r.kind = "raise" /\ Caught(r.exc, {"FileNotFoundError"})

\* lines 111-123: read reward.txt; its outcome is final unless the read
\* raised FileNotFoundError
ReadRewardTxt ==
    /\ pc = "read_txt"
    /\ calls' = Append(calls, ReadCall(reward_text_path))
    /\ LET r == TxtBody(sbx.txt)
       IN  IF TxtMissing(r)
           THEN /\ pc' = "read_json"
                /\ UNCHANGED parsed
           ELSE /\ pc' = "parsed"
                /\ parsed' = r
    /\ UNCHANGED <<metadata, sbx, todo, result, outcome, pending>>
    /\ UNCHANGED <<envVars, copyVars, convVars, loadVars, written>>

\* lines 124-150: read reward.json after reward.txt was not found
ReadRewardJson ==
    /\ pc = "read_json"
    /\ calls' = Append(calls, ReadCall(reward_json_path))
    /\ LET r == JsonBody(sbx.json)
       IN  parsed' = IF JsonMissing(r)
                     THEN Raise("RewardFileNotFoundError",
                                {reward_text_path, reward_json_path}, {result.returncode})
                     ELSE r
    /\ pc' = "parsed"
    /\ UNCHANGED <<metadata, sbx, todo, result, outcome, pending>>
    /\ UNCHANGED <<envVars, copyVars, convVars, loadVars, written>>

\* ------------------------------------------- specification of the parser

ExitCodes == {0, 1}

TxtFiles == {NoTxt, FileDenied(<<>>)} \cup {FileWith(t) : t \in SeqsUpTo(Chars, MaxTxtLen)}
JsonFiles == {NoJson, FileDenied(JsonBlank(0))} \cup {FileWith(t) : t \in JsonTexts}
\* the reward.json files tried next to every reward.txt
JsonFilesFew == {NoJson, FileWith(JsonBlank(1)), FileWith(JsonGarbage),
                 FileWith(JsonObject(<<<<"reward", PyInt(1)>>>>)),
                 FileWith(JsonObject(<<<<"score", PyInt(0)>>>>))}

NoResult == [returncode |-> 0, raised |-> "none"]
NoOutcome == [kind |-> "none", value |-> 0, answer |-> "", code |-> {}, metadata |-> {},
              exc |-> "none", cause |-> "none"]

\* _parse_reward_file(exit_code) called on a sandbox holding any pair of
\* reward files
InitParse ==
    /\ metadata = <<>>
    /\ \E t \in TxtFiles, j \in JsonFiles :
          /\ (t = NoTxt \/ j \in JsonFilesFew)
          /\ sbx = [tests |-> {}, solution |-> {}, txt |-> t, json |-> j]
    /\ calls = <<>>
    /\ pc = "read_txt"
    /\ todo = {}
    /\ \E c \in ExitCodes : result = [returncode |-> c, raised |-> "none"]
    /\ parsed = NotParsed
    /\ outcome = NoOutcome
    /\ pending = <<>>
    /\ environ = HostEnviron
    /\ env_dict = <<>>
    /\ resolved = NoEnv
    /\ tree = {}
    /\ dest = <<>>
    /\ files = <<>>
    /\ harbor_task = NoTask
    /\ overrides = NoOverrides
    /\ compose_config = NotConverted
    /\ kwargs = NoKwargs
    /\ load_result = NotLoaded
    /\ written = {}

NextParse == ReadRewardTxt \/ ReadRewardJson

SpecParse == InitParse /\ [][NextParse]_vars

\* -------------------------------------------------- the local file system

\* local paths are sequences of components; an absolute path starts with "/",
\* and Path("") is the empty sequence, the current directory
Cwd == <<>>
TestsDir == <<"/", "task", "tests">>
MissingDir == <<"/", "nonexistent", "tests">>
SolutionDir == <<"/", "task", "solution">>
MissingSolution == <<"/", "nonexistent", "solution">>

\* Path.exists()
Exists(path) == path \in {Cwd, TestsDir, SolutionDir}

\* the regular files below a directory, relative to it (rglob("*") and is_file())
FilesUnder(dir) ==
    CASE dir = TestsDir -> {<<"test.sh">>, <<"utils", "helper.py">>}
      [] dir = SolutionDir -> {<<"solve.sh">>, <<"data", "answer.txt">>}
      [] dir = Cwd      -> {<<"notes.txt">>}
      [] OTHER          -> {}

IsAbsolute(path) == path # <<>> /\ Head(path) = "/"

IsPrefix(a, b) == Len(a) <= Len(b) /\ SubSeq(b, 1, Len(a)) = a

\* a relative_to that compares components and ignores the anchors
RelativeToLoose(path, base) ==
    IF IsPrefix(base, path)
    THEN [ok |-> TRUE, rel |-> SubSeq(path, Len(base) + 1, Len(path))]
    ELSE [ok |-> FALSE, rel |-> <<>>]

\* PurePath.relative_to: the rest of the path below base, or a ValueError
RelativeTo(path, base) ==
    IF IsAbsolute(path) = IsAbsolute(base) /\ IsPrefix(base, path)
    THEN [ok |-> TRUE, rel |-> SubSeq(path, Len(base) + 1, Len(path))]
    ELSE [ok |-> FALSE, rel |-> <<>>]

\* str() of a relative path: its components, "." when there are none
PathStr(rel) == IF rel = <<>> THEN <<".">> ELSE rel

\* .replace("\\", "/") on one component: a backslash in it becomes a separator
SplitBackslash(name) ==
    CASE name = "win\\run.sh" -> <<"win", "run.sh">>
      [] name = "sub\\b.bin" -> <<"sub", "b.bin">>
      [] OTHER               -> <<name>>

RECURSIVE Slashes(_)
Slashes(parts) ==
    IF parts = <<>> THEN <<>> ELSE SplitBackslash(Head(parts)) \o Slashes(Tail(parts))

\* f"{container_path}/{rel_path}".replace("\\", "/")
ContainerPath(root, rel) == root \o Slashes(PathStr(rel))

\* --------------------------------------------------------- sample metadata

OptField(key, opt) == [k \in {x \in {key} : opt # {}} |-> CHOOSE v \in opt : TRUE]

\* dict.get(key, default)
Get(md, key, default) == IF key \in DOMAIN md THEN md[key] ELSE default

default_verifier_timeout_sec == 600

TestPaths == {TestsDir \o <<"test.sh">>, TestsDir \o <<"win\\run.sh">>,
              <<"/", "else", "test.sh">>, <<"test.sh">>}

\* the verifier_env maps a sample declares: an empty one, and one with a
\* template and a literal
VerifierEnvs == {<<>>, <<<<"OPENAI_API_KEY", <<"$", "{", "A", "}">>>>,
                         <<"MODEL_NAME", <<"B">>>>>>}

Metadatas ==
    {OptField("tests_dir", td) @@ OptField("test_path", tp)
        @@ OptField("verifier_timeout_sec", to) :
        td \in {{}, {TestsDir}, {MissingDir}},
        tp \in {{}} \cup {{t} : t \in TestPaths},
        to \in {{}, {60}}}
    \cup {OptField("tests_dir", {TestsDir})
            @@ OptField("test_path", {TestsDir \o <<"test.sh">>})
            @@ OptField("verifier_env", {ve}) : ve \in VerifierEnvs}

\* ------------------------------------------------------------ the sandbox

\* the exceptions a sandbox call can fail with
SandboxErrors == {"RuntimeError", "OSError", "TimeoutError", "UnicodeDecodeError"}

\* the reward files a verifier run can leave behind
TxtFew == {FileWith(<<"1">>), FileWith(<<"0">>), FileWith(<<"-", "1">>),
           FileWith(<<" ">>), FileWith(<<"x">>)}
JsonFew == (JsonFilesFew \ {NoJson})
           \cup {FileWith(JsonObject(<<<<"score", PyFloat(Units \div 2)>>, <<"reward", PyInt(0)>>>>)),
                 FileWith(JsonObject(<<>>))}
RewardFiles ==
    {[txt |-> t, json |-> NoJson] : t \in TxtFew}
    \cup {[txt |-> NoTxt, json |-> j] : j \in JsonFew \cup {NoJson}}
    \cup {[txt |-> FileWith(<<"0">>), json |-> FileWith(JsonObject(<<<<"reward", PyInt(1)>>>>))]}

\* ----------------------------------------------------------- score(state)

\* a score whose label also asks for a zero exit code
ScoreExitGated(value, answer, code, md) ==
    [kind |-> "score", value |-> value,
     answer |-> IF code = {0} THEN answer ELSE "FAIL", code |-> code,
     metadata |-> md, exc |-> "none", cause |-> "none"]

Score(value, answer, code, md) ==
    [kind |-> "score", value |-> value, answer |-> answer, code |-> code,
     metadata |-> md, exc |-> "none", cause |-> "none"]
\* an exception raised without `from e`
RaisedBare(cls, cause) ==
    [kind |-> "raise", value |-> 0, answer |-> "", code |-> {}, metadata |-> {},
     exc |-> cls, cause |-> "none"]

Raised(cls, cause) ==
    [kind |-> "raise", value |-> 0, answer |-> "", code |-> {}, metadata |-> {},
     exc |-> cls, cause |-> cause]

tests_dir == Get(metadata, "tests_dir", Cwd)
test_path == Get(metadata, "test_path", Cwd)
verifier_timeout_sec == Get(metadata, "verifier_timeout_sec", default_verifier_timeout_sec)

\* lines 50-58: a scoring run starts on a sample; the tests directory must exist
StartScore ==
    /\ pc \in {"idle", "done", "raised", "solved", "unsolved"}
    /\ \E md \in Metadatas :
          /\ metadata' = md
          /\ LET dir == Get(md, "tests_dir", Cwd)
             IN  IF ~Exists(dir)
                 THEN /\ outcome' = Raised("CopyTestsDirError", "none")
                      /\ pc' = "raised"
                      /\ todo' = {}
                 ELSE /\ outcome' = NoOutcome
                      /\ pc' = "copy"
                      /\ todo' = FilesUnder(dir)
    /\ calls' = <<>>
    /\ result' = NoResult
    /\ parsed' = NotParsed
    /\ pending' = <<>>
    /\ resolved' = NoEnv
    /\ written' = {}
    /\ UNCHANGED sbx
    /\ UNCHANGED <<environ, env_dict, copyVars, convVars, loadVars>>

\* lines 60-63 and copy_directory_to_sandbox: one write_file per regular
\* file; a failed write ends the copy and is re-raised as CopyTestsDirError
CopyFile ==
    /\ pc = "copy"
    /\ \E f \in todo :
          LET target == ContainerPath(TestsRoot, f)
          IN  /\ calls' = Append(calls, WriteCall(target))
              /\ \/ /\ sbx' = [sbx EXCEPT !.tests = @ \cup {target}]
                    /\ todo' = todo \ {f}
                    /\ UNCHANGED <<pc, outcome>>
                 \/ \E e \in SandboxErrors :
                       /\ outcome' = Raised("CopyTestsDirError", e)
                       /\ pc' = "raised"
                       /\ UNCHANGED <<sbx, todo>>
    /\ UNCHANGED <<metadata, result, parsed, pending>>
    /\ UNCHANGED <<envVars, copyVars, convVars, loadVars, written>>

\* lines 65-70: the verifier script's path in the sandbox
container_test_path ==
    LET r == RelativeTo(test_path, tests_dir)
    IN  IF r.ok THEN ContainerPath(TestsRoot, r.rel) ELSE <<"tests", "test.sh">>

\* the verifier started without awaiting the copy: any number of the files
\* may still be unwritten
ExecVerifierEarly ==
    /\ pc = "copy"
    /\ calls' = Append(calls, ExecCall(<<"bash", "-l">>, container_test_path,
                                       {verifier_timeout_sec}, {}))
    /\ result' = [returncode |-> 127, raised |-> "none"]
    /\ pc' = "read_txt"
    /\ UNCHANGED <<metadata, sbx, todo, parsed, outcome, pending, written>>
    /\ UNCHANGED <<envVars, copyVars, convVars, loadVars>>

\* the reward files among txt and json that a verifier run writing w, and
\* leaving the files in keep as they were, has written
Written(w, keep) ==
    {k \in {"txt", "json"} \ keep :
        (IF k = "txt" THEN w.txt.st ELSE w.json.st) # "absent"}

\* the files a verifier run may leave as they were: none, both, or
\* reward.txt alone when it writes a reward.json of its own
Kept(w) ==
    {{}, {"txt", "json"}}
    \cup (IF w = [txt |-> NoTxt, json |-> FileWith(JsonObject(<<<<"score", PyInt(0)>>>>))]
          THEN {{"txt"}} ELSE {})

\* lines 72-75: run the verifier script; it writes what reward files it
\* likes and leaves the others as they were, or the call fails; a script
\* that is not in the sandbox makes bash exit with 127 and nothing is written
ExecVerifier ==
    /\ pc = "copy"
    /\ todo = {}
    /\ calls' = Append(calls, ExecCall(<<"bash", "-l">>, container_test_path,
                                       {verifier_timeout_sec}, {}))
    /\ \/ /\ container_test_path \in sbx.tests
          /\ \E c \in ExitCodes : result' = [returncode |-> c, raised |-> "none"]
          /\ \E w \in RewardFiles : \E keep \in Kept(w) :
                /\ sbx' = [sbx EXCEPT !.txt = IF "txt" \in keep THEN @ ELSE w.txt,
                                      !.json = IF "json" \in keep THEN @ ELSE w.json]
                /\ written' = Written(w, keep)
          /\ pc' = "read_txt"
          /\ UNCHANGED outcome
       \/ /\ container_test_path \notin sbx.tests
          /\ result' = [returncode |-> 127, raised |-> "none"]
          /\ pc' = "read_txt"
          /\ UNCHANGED <<sbx, outcome, written>>
       \/ \E e \in SandboxErrors :
             /\ result' = [returncode |-> 0, raised |-> e]
             /\ outcome' = Raised(e, "none")
             /\ pc' = "raised"
             /\ UNCHANGED <<sbx, written>>
    /\ UNCHANGED <<metadata, todo, parsed, pending>>
    /\ UNCHANGED <<envVars, copyVars, convVars, loadVars>>

\* metadata only for a mapping that holds more than the scalar
TruthyMore(detail) == \E d \in detail : Len(d) > 1

\* line 84: the truth value of reward_dict
Truthy(detail) == \E d \in detail : d # <<>>

\* lines 77-85: _parse_reward_file has returned or raised; build the Score
BuildScore ==
    /\ pc = "parsed"
    /\ IF parsed.kind = "raise"
       THEN /\ outcome' = Raised(parsed.exc, "none")
            /\ pc' = "raised"
            /\ UNCHANGED pending
       ELSE /\ outcome' = Score(parsed.value,
                                IF parsed.value > 0 THEN "PASS" ELSE "FAIL",
                                {result.returncode},
                                IF Truthy(parsed.detail) THEN parsed.detail ELSE {})
            /\ pc' = "cleanup"
            /\ pending' = <<TestsRoot, VerifierLogs>>
    /\ UNCHANGED <<metadata, sbx, calls, todo, result, parsed>>
    /\ UNCHANGED <<envVars, copyVars, convVars, loadVars, written>>

\* the sandbox after rm -rf of a directory has succeeded
Removed(box, path) ==
    CASE path = TestsRoot    -> [box EXCEPT !.tests = {}]
      [] path = SolutionRoot -> [box EXCEPT !.solution = {}]
      [] path = VerifierLogs -> [box EXCEPT !.txt = NoTxt, !.json = NoJson]
      [] OTHER               -> box

\* the exceptions cleanup_sandbox_directories catches
CleanupCaught == {"RuntimeError", "OSError", "TimeoutError"}

\* line 87 and cleanup_sandbox_directories: rm -rf of the next path; the
\* command succeeds, fails with a nonzero exit, or the call raises; the Score
\* is returned after the last path
CleanupDir ==
    /\ pc = "cleanup"
    /\ pending # <<>>
    /\ calls' = Append(calls, ExecCall(<<"rm", "-rf">>, Head(pending), {}, {}))
    /\ \/ /\ sbx' = Removed(sbx, Head(pending))
          /\ pending' = Tail(pending)
          /\ pc' = IF Tail(pending) = <<>> THEN "done" ELSE "cleanup"
          /\ UNCHANGED outcome
       \/ /\ pending' = Tail(pending)
          /\ pc' = IF Tail(pending) = <<>> THEN "done" ELSE "cleanup"
          /\ UNCHANGED <<sbx, outcome>>
       \/ \E e \in SandboxErrors :
             IF Caught(e, CleanupCaught)
             THEN /\ pending' = Tail(pending)
                  /\ pc' = IF Tail(pending) = <<>> THEN "done" ELSE "cleanup"
                  /\ UNCHANGED <<sbx, outcome>>
             ELSE /\ outcome' = Raised(e, "none")
                  /\ pc' = "raised"
                  /\ UNCHANGED <<sbx, pending>>
    /\ UNCHANGED <<metadata, todo, result, parsed>>
    /\ UNCHANGED <<envVars, copyVars, convVars, loadVars, written>>

\* a sandbox the agent has worked in: no tests copied yet, and whatever the
\* agent left under /logs/verifier
Init ==
    /\ metadata = <<>>
    /\ \E w \in {[txt |-> NoTxt, json |-> NoJson],
                 [txt |-> FileWith(<<"1">>), json |-> NoJson],
                 [txt |-> NoTxt, json |-> FileWith(JsonObject(<<<<"reward", PyInt(1)>>>>))]} :
          sbx = [tests |-> {}, solution |-> {}, txt |-> w.txt, json |-> w.json]
    /\ calls = <<>>
    /\ pc = "idle"
    /\ todo = {}
    /\ result = NoResult
    /\ parsed = NotParsed
    /\ outcome = NoOutcome
    /\ pending = <<>>
    /\ environ = HostEnviron
    /\ env_dict = <<>>
    /\ resolved = NoEnv
    /\ tree = {}
    /\ dest = <<>>
    /\ files = <<>>
    /\ harbor_task = NoTask
    /\ overrides = NoOverrides
    /\ compose_config = NotConverted
    /\ kwargs = NoKwargs
    /\ load_result = NotLoaded
    /\ written = {}

Next ==
    \/ StartScore
    \/ CopyFile
    \/ ExecVerifier
    \/ ReadRewardTxt
    \/ ReadRewardJson
    \/ BuildScore
    \/ CleanupDir

Spec == Init /\ [][Next]_vars

\* ---------------------------------------------------- solve(state, generate)

\* the solution_env maps a sample declares: an empty one, one with a
\* template and a literal, and one whose template names a variable the
\* host does not set
SolutionEnvs == {<<>>,
                 <<<<"API_KEY", <<"$", "{", "A", "}">>>>, <<"MODEL", <<"B">>>>>>,
                 <<<<"DEBUG", <<"A">>>>, <<"API_KEY", <<"$", "{", "B", "}">>>>>>}

SolvePaths == {SolutionDir \o <<"solve.sh">>, <<"/", "else", "solve.sh">>}

OracleMetadatas ==
    {OptField("solution_dir", sd) @@ OptField("solve_path", sp)
        @@ OptField("solution_env", se) :
        sd \in {{}, {SolutionDir}, {MissingSolution}},
        sp \in {{}} \cup {{p} : p \in SolvePaths},
        se \in {{}} \cup {{m} : m \in SolutionEnvs}}

\* the TaskState solve() hands back
Returned(md) ==
    [kind |-> "state", value |-> 0, answer |-> "", code |-> {}, metadata |-> {md},
     exc |-> "none", cause |-> "none"]

\* lines 24-25: .get(key) is None without the key; None and "" are both falsy
solution_dir == Get(metadata, "solution_dir", <<>>)
solve_path == Get(metadata, "solve_path", <<>>)

\* lines 36 and 58: the resolved map, None when none was declared
solution_env == IF resolved.kind = "dict" THEN {resolved.items} ELSE {}

\* lines 23-39: an oracle run starts on a sample; both paths must be in the
\* metadata, the declared environment must resolve, the directory must exist
StartOracle ==
    /\ pc = "idle"
    /\ \E md \in OracleMetadatas :
          /\ metadata' = md
          /\ LET dir == Get(md, "solution_dir", <<>>)
                 script == Get(md, "solve_path", <<>>)
                 solution_env_raw == Get(md, "solution_env", <<>>)
                 env == IF solution_env_raw # <<>>
                        THEN resolve_env_vars(solution_env_raw) ELSE NoEnv
             IN  IF dir = <<>> \/ script = <<>>
                 THEN /\ outcome' = Raised("CopySolutionDirError", "none")
                      /\ pc' = "unsolved"
                      /\ todo' = {}
                      /\ UNCHANGED resolved
                 ELSE IF env.kind = "raise"
                 THEN /\ outcome' = Raised("ValueError", "none")
                      /\ pc' = "unsolved"
                      /\ todo' = {}
                      /\ resolved' = env
                 ELSE IF ~Exists(dir)
                 THEN /\ outcome' = Raised("CopySolutionDirError", "none")
                      /\ pc' = "unsolved"
                      /\ todo' = {}
                      /\ resolved' = env
                 ELSE /\ outcome' = NoOutcome
                      /\ pc' = "solution_copy"
                      /\ todo' = FilesUnder(dir)
                      /\ resolved' = env
    /\ calls' = <<>>
    /\ result' = NoResult
    /\ UNCHANGED <<sbx, parsed, pending, environ, env_dict, copyVars, convVars, loadVars, written>>

\* lines 41-46 and copy_directory_to_sandbox: one write_file per regular
\* file; a failed write is re-raised as CopySolutionDirError
CopySolutionFile ==
    /\ pc = "solution_copy"
    /\ \E f \in todo :
          LET target == ContainerPath(SolutionRoot, f)
          IN  /\ calls' = Append(calls, WriteCall(target))
              /\ \/ /\ sbx' = [sbx EXCEPT !.solution = @ \cup {target}]
                    /\ todo' = todo \ {f}
                    /\ UNCHANGED <<pc, outcome>>
                 \/ \E e \in SandboxErrors :
                       /\ outcome' = Raised("CopySolutionDirError", e)
                       /\ pc' = "unsolved"
                       /\ UNCHANGED <<sbx, todo>>
    /\ UNCHANGED <<metadata, result, parsed, pending, envVars, copyVars, convVars, loadVars, written>>

\* line 50: the entry script's path in the sandbox
container_solve_path ==
    ContainerPath(SolutionRoot, RelativeTo(solve_path, solution_dir).rel)

\* the directories the oracle removes after the script has run, as paths
\* removed by the legacy oracle
OracleCleanupLegacy == <<SolutionRoot>>

\* lines 61-63: the oracle removes no directory after the script has run
OracleCleanup == <<>>

\* the sandbox after the oracle's directory cleanup
OracleCleaned(box) ==
    IF OracleCleanup = <<>> THEN box ELSE Removed(box, Head(OracleCleanup))

\* line 65: list(solution_env.keys())
KeyList(items) == [i \in 1..Len(items) |-> items[i][1]]

\* the files a solution script may leave under /solution
Artifacts == {<<"solution", "result.txt">>}

\* lines 48-59: with the copy complete the script's path is made relative
\* to the solution directory (a ValueError is re-raised as
\* CopySolutionDirError) and the script is run with the resolved
\* environment; its exit code is not looked at
ExecSolution ==
    /\ pc = "solution_copy"
    /\ todo = {}
    /\ IF ~RelativeTo(solve_path, solution_dir).ok
       THEN /\ outcome' = Raised("CopySolutionDirError", "ValueError")
            /\ pc' = "unsolved"
            /\ UNCHANGED <<calls, sbx, result, pending>>
       ELSE /\ calls' = Append(calls, ExecCall(<<"bash", "-l">>, container_solve_path,
                                              {}, solution_env))
            /\ \/ /\ \/ /\ container_solve_path \in sbx.solution
                        /\ \E c \in ExitCodes : result' = [returncode |-> c, raised |-> "none"]
                        /\ \E w \in SUBSET Artifacts :
                              sbx' = OracleCleaned([sbx EXCEPT !.solution = @ \cup w])
                     \/ /\ container_solve_path \notin sbx.solution
                        /\ result' = [returncode |-> 127, raised |-> "none"]
                        /\ sbx' = OracleCleaned(sbx)
                  /\ IF solution_env # {} /\ resolved.items # <<>>
                     THEN /\ pc' = "unset"
                          /\ pending' = KeyList(resolved.items)
                          /\ UNCHANGED outcome
                     ELSE /\ pc' = "solved"
                          /\ outcome' = Returned(metadata)
                          /\ UNCHANGED pending
               \/ \E e \in SandboxErrors :
                     /\ result' = [returncode |-> 0, raised |-> e]
                     /\ outcome' = Raised(e, "none")
                     /\ pc' = "unsolved"
                     /\ UNCHANGED <<sbx, pending>>
    /\ UNCHANGED <<metadata, todo, parsed, envVars, copyVars, convVars, loadVars, written>>

\* lines 64-67 and cleanup_sandbox_env_vars: unset of the next variable
\* name; the call returns or raises; the state is returned after the last
UnsetEnvVar ==
    /\ pc = "unset"
    /\ pending # <<>>
    /\ calls' = Append(calls, ExecCall(<<"unset">>, <<Head(pending)>>, {}, {}))
    /\ \/ /\ pending' = Tail(pending)
          /\ IF Tail(pending) = <<>>
             THEN pc' = "solved" /\ outcome' = Returned(metadata)
             ELSE UNCHANGED <<pc, outcome>>
       \/ \E e \in SandboxErrors :
             IF Caught(e, CleanupCaught)
             THEN /\ pending' = Tail(pending)
                  /\ IF Tail(pending) = <<>>
                     THEN pc' = "solved" /\ outcome' = Returned(metadata)
                     ELSE UNCHANGED <<pc, outcome>>
             ELSE /\ outcome' = Raised(e, "none")
                  /\ pc' = "unsolved"
                  /\ UNCHANGED pending
    /\ UNCHANGED <<metadata, sbx, todo, result, parsed, envVars, copyVars, convVars, loadVars, written>>

\* a fresh sandbox: the oracle runs first, the scorer after it
InitOracle ==
    /\ metadata = <<>>
    /\ sbx = [tests |-> {}, solution |-> {}, txt |-> NoTxt, json |-> NoJson]
    /\ calls = <<>>
    /\ pc = "idle"
    /\ todo = {}
    /\ result = NoResult
    /\ parsed = NotParsed
    /\ outcome = NoOutcome
    /\ pending = <<>>
    /\ environ = HostEnviron
    /\ env_dict = <<>>
    /\ resolved = NoEnv
    /\ tree = {}
    /\ dest = <<>>
    /\ files = <<>>
    /\ harbor_task = NoTask
    /\ overrides = NoOverrides
    /\ compose_config = NotConverted
    /\ kwargs = NoKwargs
    /\ load_result = NotLoaded
    /\ written = {}

NextOracle ==
    \/ StartOracle
    \/ CopySolutionFile
    \/ ExecSolution
    \/ UnsetEnvVar
    \/ StartScore
    \/ CopyFile
    \/ ExecVerifier
    \/ ReadRewardTxt
    \/ ReadRewardJson
    \/ BuildScore
    \/ CleanupDir

SpecOracle == InitOracle /\ [][NextOracle]_vars

\* ------------------------------------ specification of resolve_env_vars

EnvValues == SeqsUpTo(EnvChars, MaxEnvLen)

\* values tried in maps of two entries: templates, a literal, a template
\* inside a longer text and two templates in one text
EnvFew == {<<"$", "{", "A", "}">>, <<"$", "{", "B", "}">>, <<"A">>,
           <<"A", "$", "{", "A", "}">>,
           <<"$", "{", "A", "}", "$", "{", "B", "}">>}

\* dicts as sequences of <<key, value>> in insertion order
EnvDicts ==
    {<<>>}
    \cup {<<<<"K1", v>>>> : v \in EnvValues \cup EnvFew}
    \cup {<<<<"K1", v>>, <<"K2", w>>>> : v, w \in EnvFew}

\* values of host variables: a literal, a text that is itself a template,
\* and a text that starts with one
HostValues == {<<"A">>, <<"$", "{", "B", "}">>, <<"$", "{", "B", "}", "A">>}

Environs ==
    {OptField(<<"A">>, a) @@ OptField(<<"B">>, b) :
        a \in {{}} \cup {{v} : v \in HostValues},
        b \in {{}, {<<"A", "A">>}}}

\* resolve_env_vars(env_dict) called with any map under any host environment
InitEnv ==
    /\ environ \in Environs
    /\ env_dict \in EnvDicts
    /\ resolved = NoEnv
    /\ metadata = <<>>
    /\ sbx = [tests |-> {}, solution |-> {}, txt |-> NoTxt, json |-> NoJson]
    /\ calls = <<>>
    /\ pc = "idle"
    /\ todo = {}
    /\ result = NoResult
    /\ parsed = NotParsed
    /\ outcome = NoOutcome
    /\ pending = <<>>
    /\ tree = {}
    /\ dest = <<>>
    /\ files = <<>>
    /\ harbor_task = NoTask
    /\ overrides = NoOverrides
    /\ compose_config = NotConverted
    /\ kwargs = NoKwargs
    /\ load_result = NotLoaded
    /\ written = {}

\* lines 36-67: one call; the argument is read, never assigned to
Resolve ==
    /\ resolved = NoEnv
    /\ resolved' = resolve_env_vars(env_dict)
    /\ UNCHANGED <<environ, env_dict>>
    /\ UNCHANGED <<scoreVars, copyVars, convVars, loadVars>>

NextEnv == Resolve

SpecEnv == InitEnv /\ [][NextEnv]_vars

\* --------------------------- specification of copy_directory_to_sandbox

MaxByteLen == 1     \* longest file content explored, in bytes

Bytes == {0, 255}
Contents == SeqsUpTo(Bytes, MaxByteLen)

FileEntry(rel, data) == [rel |-> rel, kind |-> "file", data |-> data]
DirEntry(rel) == [rel |-> rel, kind |-> "dir", data |-> <<>>]

\* the regular files a local directory may hold, relative to it: one in a
\* subdirectory, one two levels down, and one at the top whose name holds a
\* backslash (an ordinary character of a POSIX file name)
FileRels == {<<"sub", "b.bin">>, <<"sub", "deep", "c">>, <<"sub\\b.bin">>}

\* the directories above a relative path
DirsAbove(rel) == {SubSeq(rel, 1, n) : n \in 1..(Len(rel) - 1)}

\* the directory listings: any of the files with any content, the
\* directories they lie in, and an empty directory
Trees ==
    {{FileEntry(r, pick[r][1]) : r \in {x \in FileRels : pick[x] # <<>>}}
        \cup {DirEntry(d) : d \in UNION {DirsAbove(r) : r \in {x \in FileRels : pick[x] # <<>>}}}
        \cup {DirEntry(<<"empty">>)} :
     pick \in [FileRels -> {<<>>} \cup {<<c>> : c \in Contents}]}

\* copy_directory_to_sandbox(local_dir, container_path) called on any listing
InitCopy ==
    /\ tree \in Trees
    /\ dest \in {TestsRoot, SolutionRoot}
    /\ files = <<>>
    /\ harbor_task = NoTask
    /\ overrides = NoOverrides
    /\ compose_config = NotConverted
    /\ kwargs = NoKwargs
    /\ load_result = NotLoaded
    /\ written = {}
    /\ todo = tree
    /\ calls = <<>>
    /\ pc = "walk"
    /\ metadata = <<>>
    /\ sbx = [tests |-> {}, solution |-> {}, txt |-> NoTxt, json |-> NoJson]
    /\ result = NoResult
    /\ parsed = NotParsed
    /\ outcome = NoOutcome
    /\ pending = <<>>
    /\ environ = HostEnviron
    /\ env_dict = <<>>
    /\ resolved = NoEnv

\* lines 25-33: the next path rglob("*") yields, in whatever order the file
\* system lists them; a regular file is read and written to its target
CopyEntry ==
    /\ pc = "walk"
    /\ \E entry \in todo :
          /\ todo' = todo \ {entry}
          /\ IF entry.kind = "file"
             THEN LET target_path == ContainerPath(dest, entry.rel)
                  IN  /\ calls' = Append(calls, WriteCall(target_path))
                      /\ files' = (target_path :> entry.data) @@ files
             ELSE UNCHANGED <<calls, files>>
    /\ UNCHANGED <<tree, dest, pc>>
    /\ UNCHANGED <<metadata, sbx, result, parsed, outcome, pending, envVars, convVars, loadVars, written>>

NextCopy == CopyEntry

SpecCopy == InitCopy /\ [][NextCopy]_vars

\* ------------------------------------------------ harbor_to_compose_config

\* str(n) of a non-negative int
DigitChar(d) == <<"0", "1", "2", "3", "4", "5", "6", "7", "8", "9">>[d + 1]

RECURSIVE StrOfInt(_)
StrOfInt(n) ==
    IF n < 10 THEN <<DigitChar(n)>> ELSE Append(StrOfInt(n \div 10), DigitChar(n % 10))

\* an absent value (None) is the empty set, a present one a singleton
Absent == {}
Some(x) == {x}
The(opt) == CHOOSE x \in opt : TRUE

\* ComposeDeviceReservation, ComposeResourceReservations, ComposeResourceConfig
\* and ComposeDeploy, each with one other field of the compose format beside
\* the ones the converter fills in
Device(count, capabilities, options) ==
    [count |-> count, capabilities |-> capabilities, options |-> options]

Deploy(devices, limits, replicas) ==
    [resources |-> [reservations |-> [devices |-> devices], limits |-> limits],
     replicas |-> replicas]

\* ComposeService
Service(image, build, cpus, mem_limit, command, init, network_mode, ports, deploy) ==
    [image |-> image, build |-> build, cpus |-> cpus, mem_limit |-> mem_limit,
     command |-> command, init |-> init, network_mode |-> network_mode,
     ports |-> ports, deploy |-> deploy]

\* ComposeConfig
Config(services, volumes) == [kind |-> "return", services |-> services, volumes |-> volumes]

ConvRaised(cls) == [kind |-> "raise", exc |-> cls]

\* line 51
MIN_MEMORY_MB == 6144

\* lines 45-47: the default CPU count 1.0
default_cpus == PyFloat(Units)

\* line 62: the default GPU count
default_gpus == 0

\* lines 42-47
cpus(task, ov) ==
    IF ov.override_cpus # Absent
    THEN PyFloat(FloatOf(The(ov.override_cpus)).v)
    ELSE IF task.cpus # Absent THEN PyFloat(FloatOf(The(task.cpus)).v) ELSE default_cpus

Max(a, b) == IF a >= b THEN a ELSE b

\* "x or 0" for an optional int
OrZero(opt) == IF opt = Absent \/ The(opt) = 0 THEN 0 ELSE The(opt)

\* lines 52-56
memory_mb(task, ov) ==
    IF ov.override_memory_mb # Absent
    THEN ov.override_memory_mb
    ELSE Some(Max(OrZero(task.memory_mb), MIN_MEMORY_MB))

\* lines 78 and 93: f"{memory_mb}m" if memory_mb is not None else None
mem_limit(task, ov) ==
    IF memory_mb(task, ov) # Absent
    THEN Some(Append(StrOfInt(The(memory_mb(task, ov))), "m"))
    ELSE Absent

\* lines 58-62
gpus(task, ov) ==
    IF ov.override_gpus # Absent
    THEN The(ov.override_gpus)
    ELSE IF task.gpus # Absent THEN The(task.gpus) ELSE default_gpus

\* ",".join(gpu_types)
RECURSIVE Join(_)
Join(types) ==
    IF Len(types) = 0 THEN <<>>
    ELSE IF Len(types) = 1 THEN <<types[1]>>
    ELSE <<types[1], ",">> \o Join(Tail(types))

\* lines 151-182: _create_gpu_deploy_config(gpus, gpu_types)
_create_gpu_deploy_config(n, gpu_types) ==
    IF n <= 0 THEN Absent
    ELSE LET options == IF gpu_types # Absent /\ The(gpu_types) # <<>>
                        THEN Some([gpu_types |-> Join(The(gpu_types))])
                        ELSE Absent
         IN  Some(Deploy(<<Device(n, <<"gpu">>, options)>>, Absent, Absent))

gpu_deploy(task, ov) == _create_gpu_deploy_config(gpus(task, ov), task.gpu_types)

\* lines 74-80: the resource fields of one service of the file
Limited(service, task, ov) ==
    [service EXCEPT !.cpus = Some(cpus(task, ov)),
                    !.mem_limit = mem_limit(task, ov),
                    !.deploy = IF gpu_deploy(task, ov) # Absent
                               THEN gpu_deploy(task, ov) ELSE @]

\* lines 66-81: docker-compose.yaml exists; loading it may raise
FromFile(task, ov) ==
    IF task.compose.kind = "invalid" THEN ConvRaised("YAMLError")
    ELSE LET file == task.compose.config
         IN  Config([name \in DOMAIN file.services |-> Limited(file.services[name], task, ov)],
                    file.volumes)

\* lines 82-101: no docker-compose.yaml
Synthesized(task, ov) ==
    LET has_image == task.docker_image # Absent /\ The(task.docker_image) # <<>>
        service == Service(
            IF has_image THEN task.docker_image ELSE Absent,
            IF task.dockerfile /\ ~has_image THEN Some("environment") ELSE Absent,
            Some(cpus(task, ov)),
            mem_limit(task, ov),
            Some("tail -f /dev/null"),
            Some(TRUE),
            Some(IF task.allow_internet THEN "bridge" ELSE "none"),
            Absent,
            gpu_deploy(task, ov))
    IN  Config([name \in {"default"} |-> service], Absent)

\* lines 22-101
harbor_to_compose_config(task, ov) ==
    IF task.compose.kind = "absent" THEN Synthesized(task, ov) ELSE FromFile(task, ov)

\* ---- the inputs

\* services a docker-compose.yaml may declare: one with nothing but an image,
\* one with its own limits, one reserving a device and more under deploy
PlainService ==
    Service(Some(<<"u">>), Absent, Absent, Absent, Absent, Absent, Absent,
            Some("8080:80"), Absent)
SizedService ==
    Service(Some(<<"u">>), Absent, Some(PyFloat(Units \div 2)), Some(<<"1", "g">>),
            Some("run"), Absent, Absent, Absent, Absent)
GpuService ==
    Service(Absent, Some("."), Absent, Absent, Absent, Absent, Absent, Absent,
            Some(Deploy(<<Device(3, <<"gpu">>, Absent)>>, Absent, Absent)))
DeployService ==
    Service(Some(<<"u">>), Absent, Absent, Absent, Absent, Absent, Absent, Absent,
            Some(Deploy(<<>>, Some("512M"), Some(2))))

ComposeFile(kind, services, volumes) ==
    [kind |-> kind, config |-> [services |-> services, volumes |-> volumes]]

NoFile == ComposeFile("absent", <<>>, Absent)

ComposeFiles ==
    {NoFile,
     ComposeFile("invalid", <<>>, Absent),
     ComposeFile("valid", <<>>, Absent),
     ComposeFile("valid", [n \in {"default"} |-> PlainService], Some("data")),
     ComposeFile("valid", [n \in {"default", "db"} |->
                              IF n = "default" THEN SizedService ELSE DeployService], Absent),
     ComposeFile("valid", [n \in {"default"} |-> GpuService], Absent),
     ComposeFile("valid", [n \in {"web"} |-> PlainService], Absent)}

\* the environment configurations of a task
DeclaredCpus == {Absent, Some(PyInt(2)), Some(PyFloat(Units \div 2))}
DeclaredMemory == {Absent, Some(2048), Some(4096), Some(8192)}
DeclaredGpus == {Absent, Some(0), Some(1)}
GpuTypes == {Absent, Some(<<>>), Some(<<"H100", "A100">>)}

\* the image, network and Dockerfile settings matter to a synthesized
\* descriptor only, the GPU types to a task that declares a GPU
HarborTasks ==
    {task \in
        {[given |-> TRUE, cpus |-> c, memory_mb |-> m, gpus |-> g, gpu_types |-> t,
          docker_image |-> i, allow_internet |-> a, dockerfile |-> d, compose |-> f] :
            c \in DeclaredCpus, m \in DeclaredMemory, g \in DeclaredGpus, t \in GpuTypes,
            i \in {Absent, Some(<<>>), Some(<<"u">>)}, a \in BOOLEAN, d \in BOOLEAN,
            f \in ComposeFiles} :
        /\ task.gpus # Some(1) => task.gpu_types = Absent
        /\ task.compose # NoFile =>
              task.docker_image = Some(<<"u">>) /\ task.allow_internet /\ task.dockerfile}

Overrides ==
    {[given |-> TRUE, override_cpus |-> c, override_memory_mb |-> m, override_gpus |-> g] :
        c \in {Absent, Some(PyInt(8))},
        m \in {Absent, Some(16384), Some(1024)},
        g \in {Absent, Some(0), Some(4)}}

\* harbor_to_compose_config called on any task with any overrides
InitCompose ==
    /\ harbor_task \in HarborTasks
    /\ overrides \in Overrides
    /\ compose_config = NotConverted
    /\ kwargs = NoKwargs
    /\ load_result = NotLoaded
    /\ written = {}
    /\ metadata = <<>>
    /\ sbx = [tests |-> {}, solution |-> {}, txt |-> NoTxt, json |-> NoJson]
    /\ calls = <<>>
    /\ pc = "idle"
    /\ todo = {}
    /\ result = NoResult
    /\ parsed = NotParsed
    /\ outcome = NoOutcome
    /\ pending = <<>>
    /\ environ = HostEnviron
    /\ env_dict = <<>>
    /\ resolved = NoEnv
    /\ tree = {}
    /\ dest = <<>>
    /\ files = <<>>

\* lines 22-101: one call; the task and the overrides are only read
Convert ==
    /\ compose_config = NotConverted
    /\ compose_config' = harbor_to_compose_config(harbor_task, overrides)
    /\ UNCHANGED <<harbor_task, overrides>>
    /\ UNCHANGED <<scoreVars, envVars, copyVars, loadVars>>

NextCompose == Convert

SpecCompose == InitCompose /\ [][NextCompose]_vars

\* ------------------------------------------------------- load_harbor_tasks

LoadRaised(cls, msg, made) == [kind |-> "raise", exc |-> cls, msg |-> msg, calls |-> made]
LoadReturned(made) == [kind |-> "return", exc |-> "none", msg |-> "", calls |-> made]

\* lines 133-140
task_specified(kw) == kw.task_git_url # Absent \/ kw.task_git_commit_id # Absent

dataset_specified(kw) ==
    \/ kw.dataset_name_version # Absent
    \/ kw.registry_url # Absent
    \/ kw.registry_path # Absent
    \/ kw.dataset_task_names # Absent
    \/ kw.dataset_exclude_task_names # Absent

\* line 150: "if task_git_url:", the truth value of an optional str
UrlTruthy(kw) == kw.task_git_url # Absent /\ The(kw.task_git_url) # ""

\* lines 131-185: the loader load_harbor_tasks calls, "none" when it raises
\* before calling one, and the message it raises with
Dispatch(kw) ==
    IF task_specified(kw) /\ dataset_specified(kw)
    THEN <<"none", "Cannot specify both task and dataset parameters">>
    ELSE IF kw.path # Absent
    THEN IF UrlTruthy(kw) THEN <<"_load_git_task", "">> ELSE <<"_load_local_path", "">>
    ELSE IF task_specified(kw)
    THEN <<"none", "Task configuration with task_git_url requires path parameter">>
    ELSE IF dataset_specified(kw)
    THEN IF kw.dataset_name_version = Absent
         THEN <<"none", "Cannot specify registry_url, registry_path, dataset_task_names, or dataset_exclude_task_names without also specifying dataset_name_version or path">>
         ELSE <<"_load_from_registry", "">>
    ELSE <<"none", "Must specify either path, task parameters, or dataset parameters">>

\* what a loader may raise: a download or a file-system failure
LoaderErrors == {"RuntimeError", "FileNotFoundError"}

\* the arguments: each parameter left out or given, the git URL also given
\* as the empty string
OptStr(values) == {Absent} \cup {Some(v) : v \in values}

Kwargs ==
    {[given |-> TRUE, path |-> p, task_git_url |-> u, task_git_commit_id |-> c,
      registry_url |-> ru, registry_path |-> rp, dataset_name_version |-> d,
      dataset_task_names |-> tn, dataset_exclude_task_names |-> en] :
        p \in OptStr({"/some/path"}),
        u \in OptStr({"", "https://github.com/org/repo"}),
        c \in OptStr({"abc123"}),
        ru \in OptStr({"https://registry.example.com"}),
        rp \in OptStr({"/registry"}),
        d \in OptStr({"dataset@1.0", "dataset"}),
        tn \in OptStr({<<"task-*">>}),
        en \in OptStr({<<"skip-*">>})}

\* load_harbor_tasks called with any combination of arguments
InitLoad ==
    /\ kwargs \in Kwargs
    /\ load_result = NotLoaded
    /\ written = {}
    /\ harbor_task = NoTask
    /\ overrides = NoOverrides
    /\ compose_config = NotConverted
    /\ metadata = <<>>
    /\ sbx = [tests |-> {}, solution |-> {}, txt |-> NoTxt, json |-> NoJson]
    /\ calls = <<>>
    /\ pc = "idle"
    /\ todo = {}
    /\ result = NoResult
    /\ parsed = NotParsed
    /\ outcome = NoOutcome
    /\ pending = <<>>
    /\ environ = HostEnviron
    /\ env_dict = <<>>
    /\ resolved = NoEnv
    /\ tree = {}
    /\ dest = <<>>
    /\ files = <<>>

\* lines 131-185: one call; the loader it calls returns the task paths or
\* raises
LoadHarborTasks ==
    /\ load_result = NotLoaded
    /\ LET d == Dispatch(kwargs)
       IN  IF d[1] = "none"
           THEN load_result' = LoadRaised("ValueError", d[2], <<>>)
           ELSE \/ load_result' = LoadReturned(<<d[1]>>)
                \/ \E cls \in LoaderErrors : load_result' = LoadRaised(cls, "", <<d[1]>>)
    /\ UNCHANGED kwargs
    /\ UNCHANGED <<scoreVars, envVars, copyVars, convVars>>

NextLoad == LoadHarborTasks

SpecLoad == InitLoad /\ [][NextLoad]_vars

\* ------------------------------------------------ properties of the parser

\* decimal numerals, written out: sign, integer digits, optional point and
\* fraction digits, with leading and trailing blanks
Blanks(n) == [i \in 1..n |-> " "]
DigitSeqs == SeqsUpTo(Digits, MaxTxtLen)
NumeralParts ==
    {n \in [l : 0..MaxTxtLen, r : 0..MaxTxtLen, sign : {<<>>, <<"-">>},
            ip : DigitSeqs, point : {<<>>, <<".">>}, fp : DigitSeqs] :
        /\ Len(n.ip) + Len(n.fp) > 0
        /\ (n.point = <<>> => n.fp = <<>>)
        /\ n.l + Len(n.sign) + Len(n.ip) + Len(n.point) + Len(n.fp) + n.r <= MaxTxtLen}
NumeralRows ==
    {<<Blanks(n.l) \o n.sign \o n.ip \o n.point \o n.fp \o Blanks(n.r),
       (IF n.sign = <<>> THEN 1 ELSE -1)
         * (DigitsVal(n.ip) * Units + DigitsVal(n.fp) * Pow10(MaxTxtLen - Len(n.fp)))>> :
        n \in NumeralParts}
NumeralTexts == {row[1] : row \in NumeralRows}
NumeralValue(text) == (CHOOSE row \in NumeralRows : row[1] = text)[2]

AllBlank(text) == \A i \in 1..Len(text) : text[i] = " "

Parsed == pc = "parsed"
TxtExists == sbx.txt.st # "absent"
JsonRead == \E i \in 1..Len(calls) : calls[i] = ReadCall(reward_json_path)

\* the outcome the reward.txt file alone determines
TxtOutcome(file) ==
    CASE file.st = "denied"           -> Raise("PermissionError", {}, {})
      [] AllBlank(file.text)          -> Raise("RewardFileEmptyError", {reward_text_path}, {})
      [] file.text \in NumeralTexts   -> Return(NumeralValue(file.text), {})
      [] OTHER                        -> Raise("VerifierOutputParseError", {reward_text_path}, {})

\* C1: whenever reward.txt exists the outcome of _parse_reward_file is the one
\* its content alone determines, whatever reward.json holds, and reward.json
\* is never read; a numeral between blanks yields its number with no detail.
C1_TxtPriority ==
    (Parsed /\ TxtExists) =>
        /\ parsed = TxtOutcome(sbx.txt)
        /\ ~JsonRead
        /\ calls = <<ReadCall(reward_text_path)>>

C1_Witness ==
    /\ Parsed
    /\ sbx.txt = FileWith(<<" ", "0", " ">>)
    /\ sbx.json = FileWith(JsonObject(<<<<"reward", PyInt(1)>>>>))
    /\ parsed = Return(0, {})

\* the mapping a JSON object denotes, stated from its members: one item per
\* key, in the order the keys first occur, holding the key's last value
FirstAt(ms, k) == CHOOSE i \in 1..Len(ms) : ms[i][1] = k /\ \A j \in 1..(i - 1) : ms[j][1] # k
LastAt(ms, k) == CHOOSE i \in 1..Len(ms) : ms[i][1] = k /\ \A j \in (i + 1)..Len(ms) : ms[j][1] # k
IsDictOf(d, ms) ==
    /\ DictKeys(d) = {ms[i][1] : i \in 1..Len(ms)}
    /\ \A i, j \in 1..Len(d) :
          /\ (i # j => d[i][1] # d[j][1])
          /\ (i < j => FirstAt(ms, d[i][1]) < FirstAt(ms, d[j][1]))
    /\ \A i \in 1..Len(d) : d[i][2] = ms[LastAt(ms, d[i][1])][2]

\* the value the reward is taken from: that of "reward", else that of the
\* first key
SelectedOf(ms) ==
    IF \E i \in 1..Len(ms) : ms[i][1] = "reward"
    THEN ms[LastAt(ms, "reward")][2]
    ELSE ms[LastAt(ms, ms[1][1])][2]

Coercible(x) == x.t \in {"int", "float"} \/ (x.t = "str" /\ x.s \in NumeralTexts)
CoercedValue(x) == IF x.t = "str" THEN NumeralValue(x.s) ELSE x.v

JsonIs(kind) == ~TxtExists /\ sbx.json.st = "file" /\ sbx.json.text.k = kind
JsonMapping == JsonIs("object") /\ sbx.json.text.members # <<>>

\* C2: with no reward.txt and a non-empty mapping in reward.json, the scalar
\* is the float of the value of "reward" when that key is present, wherever
\* it stands, and else of the first value; the mapping is the detail.
C2_JsonScalar ==
    (Parsed /\ JsonMapping) =>
        LET ms == sbx.json.text.members
        IN  IF Coercible(SelectedOf(ms))
            THEN /\ parsed.kind = "return"
                 /\ parsed.value = CoercedValue(SelectedOf(ms))
                 /\ Cardinality(parsed.detail) = 1
                 /\ \A d \in parsed.detail : IsDictOf(d, ms)
            ELSE parsed.kind = "raise"

C2_Witness ==
    /\ Parsed
    /\ JsonIs("object")
    /\ sbx.json.text.members = <<<<"score", PyInt(0)>>, <<"reward", PyStr(<<"1">>)>>>>
    /\ parsed = Return(Units, {sbx.json.text.members})

TxtBlank == sbx.txt.st = "file" /\ AllBlank(sbx.txt.text)

\* C3: a blank reward file that is read raises the reward-empty error; the
\* reward-not-found error is raised exactly when neither file exists, and it
\* carries the exit code passed in.
C3_BlankVersusAbsent ==
    Parsed =>
        /\ (TxtBlank \/ JsonIs("blank")) => parsed.exc = "RewardFileEmptyError"
        /\ parsed.exc = "RewardFileNotFoundError"
              <=> (sbx.txt.st = "absent" /\ sbx.json.st = "absent")
        /\ parsed.exc = "RewardFileNotFoundError" => parsed.code = {result.returncode}

C3_Witness ==
    /\ Parsed
    /\ sbx.txt.st = "absent" /\ sbx.json.st = "absent"
    /\ result.returncode = 1
    /\ parsed = Raise("RewardFileNotFoundError", {reward_text_path, reward_json_path}, {1})

C3_WitnessBlank ==
    Parsed /\ JsonIs("blank") /\ parsed.exc = "RewardFileEmptyError"

\* reward content that is present and not blank, and not of the expected shape
Misshapen ==
    \/ sbx.txt.st = "file" /\ ~AllBlank(sbx.txt.text) /\ sbx.txt.text \notin NumeralTexts
    \/ JsonIs("garbage")
    \/ JsonIs("value")
    \/ JsonIs("object") /\ sbx.json.text.members = <<>>
    \/ JsonMapping /\ ~Coercible(SelectedOf(sbx.json.text.members))

\* C4: reward content that is present, not blank and not of the expected
\* shape always raises VerifierOutputParseError.
C4_ParseErrorAlways ==
    (Parsed /\ Misshapen) => parsed.exc = "VerifierOutputParseError"

\* ------------------------------------------------ properties of the scorer

IsExec(c, cmd) == c.op = "exec" /\ c.cmd = cmd
Issued(cmd, path) == \E i \in 1..Len(calls) : IsExec(calls[i], cmd) /\ calls[i].path = path
RunEnded == pc \in {"done", "raised"}
\* the verifier script was run and its result came back
VerifierExecuted ==
    /\ \E i \in 1..Len(calls) : IsExec(calls[i], <<"bash", "-l">>)
    /\ result.raised = "none"
TxtRead == \E i \in 1..Len(calls) : calls[i] = ReadCall(reward_text_path)

\* C5: the score's value is the parsed reward scalar, its label is PASS
\* exactly when that scalar is > 0 and FAIL otherwise, and it carries the
\* reward mapping as metadata exactly when the reward was read from
\* reward.json; just after the score is built the scalar is the one the reward
\* file read determines.
C5_ScoreFromReward ==
    outcome.kind = "score" =>
        /\ parsed.kind = "return"
        /\ outcome.value = parsed.value
        /\ outcome.answer = (IF parsed.value > 0 THEN "PASS" ELSE "FAIL")
        /\ outcome.metadata = (IF JsonRead THEN parsed.detail ELSE {})
        /\ (outcome.metadata # {}) <=> JsonRead
        /\ (pc = "cleanup" /\ Len(pending) = 2) =>
              IF TxtExists
              THEN outcome.value = NumeralValue(sbx.txt.text) /\ outcome.metadata = {}
              ELSE /\ outcome.value = CoercedValue(SelectedOf(sbx.json.text.members))
                   /\ \A d \in outcome.metadata : IsDictOf(d, sbx.json.text.members)

C5_Witness ==
    /\ pc = "done"
    /\ outcome = Score(0, "FAIL", {1},
                       {<<<<"score", PyFloat(Units \div 2)>>, <<"reward", PyInt(0)>>>>})

C5_WitnessTxt ==
    /\ pc = "done"
    /\ outcome = Score(0 - Units, "FAIL", {0}, {})

\* C6: every scoring run in which the verifier script was executed attempts
\* rm -rf /tests and rm -rf /logs/verifier before it ends, whether reward
\* parsing succeeded or failed with a reward-empty, reward-parse or
\* reward-not-found error.
C6_CleanupAlways ==
    (/\ RunEnded
     /\ VerifierExecuted
     /\ \/ parsed.kind = "return"
        \/ parsed.exc \in {"RewardFileEmptyError", "VerifierOutputParseError",
                           "RewardFileNotFoundError"})
    => /\ Issued(<<"rm", "-rf">>, TestsRoot)
       /\ Issued(<<"rm", "-rf">>, VerifierLogs)

\* C7: cleanup never raises: whatever a cleanup exec fails with, the failure
\* is suppressed, the remaining path is still attempted, and the score
\* already computed is returned.
C7_CleanupNeverRaises ==
    (\E i \in 1..Len(calls) : IsExec(calls[i], <<"rm", "-rf">>)) =>
        /\ pc \in {"cleanup", "done"}
        /\ outcome.kind = "score"
        /\ pc = "done" =>
              \E i \in 1..Len(calls) :
                 /\ i + 1 = Len(calls)
                 /\ calls[i] = ExecCall(<<"rm", "-rf">>, TestsRoot, {}, {})
                 /\ calls[i + 1] = ExecCall(<<"rm", "-rf">>, VerifierLogs, {}, {})

ExecsIssued == SelectSeq(calls, LAMBDA c : c.op = "exec")
Command(c) == <<c.cmd, c.path>>

\* C8: a scoring run that returns a score has issued exactly these execs, in
\* this order: mkdir -p /logs/agent, mkdir -p /logs/verifier, bash -l on the
\* verifier script, rm -rf /tests, rm -rf /logs/verifier (no unset follows
\* when no verifier environment is declared).
C8_ExecOrder ==
    pc = "done" =>
        /\ Len(ExecsIssued) = 5
        /\ Command(ExecsIssued[1]) = <<<<"mkdir", "-p">>, <<"logs", "agent">>>>
        /\ Command(ExecsIssued[2]) = <<<<"mkdir", "-p">>, VerifierLogs>>
        /\ ExecsIssued[3].cmd = <<"bash", "-l">>
        /\ Command(ExecsIssued[4]) = <<<<"rm", "-rf">>, TestsRoot>>
        /\ Command(ExecsIssued[5]) = <<<<"rm", "-rf">>, VerifierLogs>>

\* C9: a sample whose metadata lacks tests_dir or test_path, or whose
\* tests_dir does not exist locally, makes the scorer raise CopyTestsDirError
\* without any sandbox operation.
C9_MissingTestsDir ==
    (/\ pc # "idle"
     /\ \/ "tests_dir" \notin DOMAIN metadata
        \/ "test_path" \notin DOMAIN metadata
        \/ ~Exists(tests_dir))
    => /\ pc = "raised"
       /\ outcome.exc = "CopyTestsDirError"
       /\ calls = <<>>

\* the script the scorer is to run, stated case by case for the samples
C10_Expected ==
    CASE tests_dir = TestsDir /\ test_path = <<"/", "task", "tests", "test.sh">>
            -> <<"tests", "test.sh">>
      [] tests_dir = TestsDir /\ test_path = <<"/", "task", "tests", "win\\run.sh">>
            -> <<"tests", "win", "run.sh">>
      [] tests_dir = <<>> /\ test_path = <<"test.sh">>
            -> <<"tests", "test.sh">>
      [] tests_dir = <<>> /\ test_path = <<>>
            -> <<"tests", ".">>
      [] OTHER
            -> <<"tests", "test.sh">>

C10_WitnessUnder ==
    /\ pc = "read_txt"
    /\ tests_dir = TestsDir
    /\ test_path = <<"/", "task", "tests", "win\\run.sh">>
    /\ Issued(<<"bash", "-l">>, <<"tests", "win", "run.sh">>)


\* C11: when test_path is not below an existing tests_dir, the scorer raises
\* CopyTestsDirError and never executes a verifier script.
C11_NotRelativeRaises ==
    (/\ pc \notin {"idle", "copy"}
     /\ {"tests_dir", "test_path"} \subseteq DOMAIN metadata
     /\ Exists(tests_dir)
     /\ ~IsPrefix(tests_dir, test_path))
    => /\ pc = "raised"
       /\ outcome.exc = "CopyTestsDirError"
       /\ ~\E i \in 1..Len(calls) : IsExec(calls[i], <<"bash", "-l">>)

\* the environment override the verifier script is to get: the resolved
\* verifier_env when the sample declares a non-empty one, none otherwise
C12_Env ==
    LET raw == Get(metadata, "verifier_env", <<>>)
    IN  IF raw # <<>> THEN {resolve_env_vars(raw).items} ELSE {}

\* C12: the verifier script is executed with the resolved verifier_env as
\* its environment override when the sample declares a non-empty one and
\* with none otherwise; the timeout of that exec is the sample's
\* verifier_timeout_sec, or 600 when the sample has none.
C12_VerifierEnv ==
    \A i \in 1..Len(calls) :
        IsExec(calls[i], <<"bash", "-l">>) =>
            /\ calls[i].env = C12_Env
            /\ calls[i].timeout =
                  {Get(metadata, "verifier_timeout_sec", default_verifier_timeout_sec)}

\* ------------------------------------- properties of resolve_env_vars

\* a text that is, as a whole, ${NAME} for a non-empty NAME without "}"
IsPlaceholder(v) ==
    /\ Len(v) >= 4
    /\ SubSeq(v, 1, 2) = <<"$", "{">>
    /\ v[Len(v)] = "}"
    /\ \A i \in 3..(Len(v) - 1) : v[i] # "}"
NameOf(v) == SubSeq(v, 3, Len(v) - 1)

\* the names the input asks for that the host environment does not set
MissingNames ==
    {NameOf(env_dict[i][2]) :
        i \in {j \in 1..Len(env_dict) :
                 /\ IsPlaceholder(env_dict[j][2])
                 /\ NameOf(env_dict[j][2]) \notin DOMAIN environ}}

C18_Result ==
    resolved.kind # "none" =>
        IF MissingNames # {}
        THEN /\ resolved.kind = "raise"
             /\ resolved.name \in MissingNames
             /\ resolved.items = <<>>
        ELSE /\ resolved.kind = "dict"
             /\ Len(resolved.items) = Len(env_dict)
             /\ \A i \in 1..Len(env_dict) :
                   /\ resolved.items[i][1] = env_dict[i][1]
                   /\ resolved.items[i][2] =
                         IF IsPlaceholder(env_dict[i][2])
                         THEN environ[NameOf(env_dict[i][2])]
                         ELSE env_dict[i][2]

\* C18: resolve_env_vars returns a map with exactly the input's keys in
\* which a value that is as a whole ${NAME} is replaced by the host value of
\* NAME and every other value is unchanged; if a NAME is not set it raises an
\* error naming it and returns nothing; the input map is never modified, and
\* the empty map gives the empty map.
C18_ResolveContract == [](C18_Result) /\ [][env_dict' = env_dict]_vars

C18_Witness ==
    /\ env_dict = <<<<"K1", <<"$", "{", "A", "}">>>>,
                    <<"K2", <<"A", "$", "{", "A", "}">>>>>>
    /\ <<"A">> \in DOMAIN environ
    /\ resolved = EnvDict(<<<<"K1", environ[<<"A">>]>>,
                            <<"K2", <<"A", "$", "{", "A", "}">>>>>>)

C18_WitnessMissing ==
    /\ env_dict = <<<<"K1", <<"A">>>>, <<"K2", <<"$", "{", "B", "}">>>>>>
    /\ <<"B">> \notin DOMAIN environ
    /\ resolved = EnvMissing(<<"B">>)

C18_WitnessEmpty == env_dict = <<>> /\ resolved = EnvDict(<<>>)

\* C19 as stated: whenever resolve_env_vars succeeds, applying it to its own
\* output succeeds and returns that same output.
C19_Idempotent ==
    resolved.kind = "dict" => resolve_env_vars(resolved.items) = resolved

\* C19: whenever resolve_env_vars succeeds and no host value it substituted
\* is itself, as a whole, ${NAME}, applying it to its own output succeeds and
\* returns that same output.
C19_IdempotentOnLiterals ==
    (/\ resolved.kind = "dict"
     /\ \A i \in 1..Len(env_dict) :
           IsPlaceholder(env_dict[i][2]) =>
               ~IsPlaceholder(environ[NameOf(env_dict[i][2])]))
    => resolve_env_vars(resolved.items) = resolved

C19_Witness ==
    /\ env_dict = <<<<"K1", <<"$", "{", "A", "}">>>>>>
    /\ <<"A">> \in DOMAIN environ
    /\ environ[<<"A">>] = <<"$", "{", "B", "}", "A">>
    /\ resolved = EnvDict(<<<<"K1", <<"$", "{", "B", "}", "A">>>>>>)

\* --------------------------- properties of copy_directory_to_sandbox

\* <destination>/p with forward slashes
C20_Target(rel) ==
    IF rel = <<"sub\\b.bin">> THEN dest \o <<"sub", "b.bin">> ELSE dest \o rel

C20_Files == {entry \in tree : entry.kind = "file"}

\* C20: after the copy, for every regular file at relative path p the
\* sandbox file <destination>/p, with forward slashes, holds exactly the
\* file's bytes; one write is made per regular file, none for directories.
C20_RoundTrip ==
    (pc = "walk" /\ todo = {}) =>
        /\ \A entry \in C20_Files :
              /\ C20_Target(entry.rel) \in DOMAIN files
              /\ files[C20_Target(entry.rel)] = entry.data
        /\ Len(calls) = Cardinality(C20_Files)
        /\ \A i \in 1..Len(calls) :
              \E entry \in C20_Files : calls[i].path = C20_Target(entry.rel)

\* the same, for listings in which no two files have the same target
C20_RoundTripDistinct ==
    (\A a, b \in C20_Files : C20_Target(a.rel) = C20_Target(b.rel) => a = b)
    => C20_RoundTrip

\* ------------------------------------------------ properties of the oracle

OracleRun == pc \in {"solution_copy", "unset", "solved", "unsolved"}
OracleEnded == pc \in {"solved", "unsolved"}
\* the entry script was run and its result came back
ScriptReturned ==
    /\ OracleRun
    /\ \E i \in 1..Len(calls) : IsExec(calls[i], <<"bash", "-l">>)
    /\ result.raised = "none"
SolutionEnvRaw == Get(metadata, "solution_env", <<>>)
UnsetNames ==
    LET unsets == SelectSeq(calls, LAMBDA c : IsExec(c, <<"unset">>))
    IN  [i \in 1..Len(unsets) |-> unsets[i].path[1]]

\* C13: whatever solution_env the sample declares, if solution_dir or
\* solve_path is missing from the metadata or the solution directory does
\* not exist, the oracle raises CopySolutionDirError and has made no sandbox
\* call.
C13_Preconditions ==
    (/\ OracleRun
     /\ \/ "solution_dir" \notin DOMAIN metadata
        \/ "solve_path" \notin DOMAIN metadata
        \/ ~Exists(solution_dir))
    => /\ pc = "unsolved"
       /\ outcome.exc = "CopySolutionDirError"
       /\ calls = <<>>

\* C14: when solve_path does not lie below the solution directory, the
\* oracle raises CopySolutionDirError, the entry script is never executed
\* and no file has been written to the sandbox.
C14_ScriptOutside ==
    (/\ OracleEnded
     /\ {"solution_dir", "solve_path"} \subseteq DOMAIN metadata
     /\ Exists(solution_dir)
     /\ ~IsPrefix(solution_dir, solve_path))
    => /\ outcome.exc = "CopySolutionDirError"
       /\ \A i \in 1..Len(calls) :
             /\ ~IsExec(calls[i], <<"bash", "-l">>)
             /\ calls[i].op # "write_file"

\* C15: the solution_env map is resolved before the entry script is run; a
\* non-empty map makes the script run with exactly the resolved map and,
\* once that exec has returned, one unset is issued for each of its names
\* and for no other; without a map, or with an empty one, the script runs
\* with no environment override and no unset is issued.
C15_EnvThenUnset ==
    OracleRun =>
        /\ \A i \in 1..Len(calls) :
              IsExec(calls[i], <<"bash", "-l">>) =>
                  /\ calls[i].env = IF SolutionEnvRaw # <<>>
                                    THEN {resolve_env_vars(SolutionEnvRaw).items}
                                    ELSE {}
                  /\ resolved = IF SolutionEnvRaw # <<>>
                                THEN resolve_env_vars(SolutionEnvRaw)
                                ELSE NoEnv
        /\ \A i \in 1..Len(calls) :
              IsExec(calls[i], <<"unset">>) =>
                  /\ \E j \in 1..(i - 1) : IsExec(calls[j], <<"bash", "-l">>)
                  /\ result.raised = "none"
                  /\ \E k \in 1..Len(SolutionEnvRaw) : calls[i].path = <<SolutionEnvRaw[k][1]>>
        /\ (OracleEnded /\ ScriptReturned) =>
              UnsetNames = [k \in 1..Len(SolutionEnvRaw) |-> SolutionEnvRaw[k][1]]

\* the same, stated for the runs that return the state
C15_EnvThenUnsetReturned ==
    OracleRun =>
        /\ \A i \in 1..Len(calls) :
              IsExec(calls[i], <<"bash", "-l">>) =>
                  calls[i].env = IF SolutionEnvRaw # <<>>
                                 THEN {resolve_env_vars(SolutionEnvRaw).items}
                                 ELSE {}
        /\ pc = "solved" =>
              UnsetNames = [k \in 1..Len(SolutionEnvRaw) |-> SolutionEnvRaw[k][1]]

\* C16: a nonzero exit code of the entry script is not an error: for every
\* exit code the oracle raises nothing, runs its cleanup and returns the
\* task state it was given.
C16_ExitCodeIgnored ==
    (OracleEnded /\ ScriptReturned) =>
        /\ pc = "solved"
        /\ outcome = Returned(metadata)
        /\ Len(UnsetNames) = Len(SolutionEnvRaw)

\* the same, with the runs set aside in which an unset raised an exception
\* that cleanup_sandbox_env_vars does not catch
C16_ExitCodeIgnoredUnlessUnsetRaises ==
    (OracleEnded /\ ScriptReturned /\ ~Caught(outcome.exc, {"UnicodeDecodeError"})) =>
        /\ pc = "solved"
        /\ outcome = Returned(metadata)
        /\ Len(UnsetNames) = Len(SolutionEnvRaw)

C17_Copied == {<<"solution", "solve.sh">>, <<"solution", "data", "answer.txt">>}

C17_Completed ==
    (pc = "solved" /\ SolutionEnvRaw = <<>>) =>
        /\ SelectSeq(calls, LAMBDA c : c.op = "exec")
              = <<ExecCall(<<"bash", "-l">>, <<"solution", "solve.sh">>, {}, {})>>
        /\ C17_Copied \subseteq sbx.solution

\* C17: the oracle never removes the copied solution directory: in a
\* completed run without a solution_env map its only exec is bash -l on the
\* entry script under /solution, and no step of the oracle or of the scorer
\* after it takes a file away from /solution.
C17_SolutionKept ==
    [](C17_Completed) /\ [][\A f \in sbx.solution : f \in sbx'.solution]_vars

C17_Witness ==
    /\ pc = "done"
    /\ sbx.solution = C17_Copied \cup {<<"solution", "result.txt">>}

C17_WitnessSolved ==
    /\ pc = "solved"
    /\ SolutionEnvRaw = <<>>
    /\ result.returncode = 1
    /\ sbx.solution = C17_Copied \cup {<<"solution", "result.txt">>}

\* ------------------------------------------- properties of a failed copy

OnlyWrites == calls # <<>> /\ \A i \in 1..Len(calls) : calls[i].op = "write_file"

\* C21: a failed file write ends the copy at once: no call follows the
\* failed write, the scorer raises CopyTestsDirError and the oracle
\* CopySolutionDirError with the failure as cause, and neither runs its
\* script.
C21_CopyAborts ==
    /\ (outcome.kind = "raise" /\ outcome.cause \in SandboxErrors) =>
          /\ OnlyWrites
          /\ \/ pc = "raised" /\ outcome.exc = "CopyTestsDirError"
             \/ /\ pc = "unsolved"
                /\ outcome.exc = "CopySolutionDirError"
                /\ Cardinality(sbx.solution) = Len(calls) - 1
    /\ (pc = "raised" /\ outcome.exc = "CopyTestsDirError" /\ Exists(tests_dir)) =>
          outcome.cause \in SandboxErrors
    /\ (/\ pc = "unsolved"
        /\ outcome.exc = "CopySolutionDirError"
        /\ {"solution_dir", "solve_path"} \subseteq DOMAIN metadata
        /\ Exists(solution_dir)
        /\ IsPrefix(solution_dir, solve_path)) =>
          outcome.cause \in SandboxErrors

C21_Witness ==
    /\ pc = "unsolved"
    /\ outcome = Raised("CopySolutionDirError", "OSError")
    /\ Len(calls) = 2
    /\ sbx.solution = {<<"solution", "solve.sh">>}

C21_WitnessScorer ==
    /\ pc = "raised"
    /\ outcome = Raised("CopyTestsDirError", "TimeoutError")
    /\ Len(calls) = 2
\* --------------------------------------------- properties of the converter

\* the services of the returned descriptor
ConvServices ==
    IF compose_config.kind = "return"
    THEN {compose_config.services[n] : n \in DOMAIN compose_config.services}
    ELSE {}

\* override > declared > default
Precedence(override, declared, default) ==
    IF override # Absent THEN The(override)
    ELSE IF declared # Absent THEN The(declared) ELSE default

\* the device reservations a service carries
Devices(svc) ==
    IF svc.deploy = Absent THEN <<>> ELSE The(svc.deploy).resources.reservations.devices

\* "<MB>m" for the memory sizes explored
MemText(mb) ==
    CASE mb = 1024  -> <<"1", "0", "2", "4", "m">>
      [] mb = 2048  -> <<"2", "0", "4", "8", "m">>
      [] mb = 4096  -> <<"4", "0", "9", "6", "m">>
      [] mb = 8192  -> <<"8", "1", "9", "2", "m">>
      [] mb = 16384 -> <<"1", "6", "3", "8", "4", "m">>

ExpectedCpus == Precedence(overrides.override_cpus, harbor_task.cpus, PyFloat(Units)).v
ExpectedGpus == Precedence(overrides.override_gpus, harbor_task.gpus, 0)

\* C22: CPU count, memory and GPU count are each resolved by override >
\* declared > default (CPU 1.0, GPU 0): every service of the returned
\* descriptor has the override when one is given, else the declared value
\* when the task declares one.
C22_Precedence ==
    \A svc \in ConvServices :
        /\ svc.cpus # Absent /\ The(svc.cpus).v = ExpectedCpus
        /\ (overrides.override_memory_mb # Absent \/ harbor_task.memory_mb # Absent) =>
              svc.mem_limit =
                  Some(MemText(Precedence(overrides.override_memory_mb, harbor_task.memory_mb, 0)))
        /\ ExpectedGpus > 0 =>
              Len(Devices(svc)) = 1 /\ Devices(svc)[1].count = ExpectedGpus

\* the CPU and GPU parts of C22, and its memory part under an override
C22_PrecedenceCpuGpu ==
    \A svc \in ConvServices :
        /\ svc.cpus # Absent /\ The(svc.cpus).v = ExpectedCpus
        /\ overrides.override_memory_mb # Absent =>
              svc.mem_limit = Some(MemText(The(overrides.override_memory_mb)))
        /\ ExpectedGpus > 0 =>
              Len(Devices(svc)) = 1 /\ Devices(svc)[1].count = ExpectedGpus

\* C23: with no memory override the memory limit is "<declared MB>m", and
\* there is none when the task declares no memory.
C23_MemoryLimit ==
    overrides.override_memory_mb = Absent =>
        \A svc \in ConvServices :
            svc.mem_limit = IF harbor_task.memory_mb = Absent THEN Absent
                            ELSE Some(MemText(The(harbor_task.memory_mb)))

\* C24: with or without a docker-compose.yaml, a service carries a device
\* reservation exactly when the resolved GPU count is > 0, and then one of
\* that count with capability "gpu".
C24_Reservation ==
    \A svc \in ConvServices :
        IF ExpectedGpus > 0
        THEN /\ Len(Devices(svc)) = 1
             /\ Devices(svc)[1].count = ExpectedGpus
             /\ Devices(svc)[1].capabilities = <<"gpu">>
        ELSE Devices(svc) = <<>>

\* the same for a synthesized descriptor only
C24_ReservationSynthesized ==
    harbor_task.compose = NoFile => C24_Reservation

\* what a service's deploy section holds beside the device reservations
DeployRest(svc) ==
    IF svc.deploy = Absent THEN <<Absent, Absent>>
    ELSE <<The(svc.deploy).resources.limits, The(svc.deploy).replicas>>

\* the fields of a service other than cpus, mem_limit and deploy
OtherFields(svc) ==
    <<svc.image, svc.build, svc.command, svc.init, svc.network_mode, svc.ports>>

\* C25: with a docker-compose.yaml, every declared service gets the resolved
\* cpus and memory limit (and the device reservation when the resolved GPU
\* count is > 0); every other field of every service and the set of
\* services are as in the file.  (Which memory size is the resolved one
\* without an override is the subject of C23.)
C25_FileFrame ==
    (compose_config.kind = "return" /\ harbor_task.compose.kind = "valid") =>
        LET file == harbor_task.compose.config
        IN  /\ DOMAIN compose_config.services = DOMAIN file.services
            /\ compose_config.volumes = file.volumes
            /\ \A n \in DOMAIN file.services :
                  LET svc == compose_config.services[n]
                  IN  /\ The(svc.cpus).v = ExpectedCpus
                      /\ svc.mem_limit # Absent
                      /\ overrides.override_memory_mb # Absent =>
                            svc.mem_limit = Some(MemText(The(overrides.override_memory_mb)))
                      /\ ExpectedGpus > 0 =>
                            Len(Devices(svc)) = 1 /\ Devices(svc)[1].count = ExpectedGpus
                      /\ ExpectedGpus <= 0 => Devices(svc) = Devices(file.services[n])
                      /\ OtherFields(svc) = OtherFields(file.services[n])
                      /\ DeployRest(svc) = DeployRest(file.services[n])

\* the same with the deploy section counted as the device reservation
C25_FileFrameTopLevel ==
    (compose_config.kind = "return" /\ harbor_task.compose.kind = "valid") =>
        LET file == harbor_task.compose.config
        IN  /\ DOMAIN compose_config.services = DOMAIN file.services
            /\ compose_config.volumes = file.volumes
            /\ \A n \in DOMAIN file.services :
                  LET svc == compose_config.services[n]
                  IN  /\ OtherFields(svc) = OtherFields(file.services[n])
                      /\ ExpectedGpus <= 0 => svc.deploy = file.services[n].deploy

\* C26: every returned descriptor, synthesized or loaded, has a service
\* named "default".
C26_DefaultService ==
    compose_config.kind = "return" => "default" \in DOMAIN compose_config.services

\* the same for a synthesized descriptor only
C26_DefaultServiceSynthesized ==
    (compose_config.kind = "return" /\ harbor_task.compose = NoFile) =>
        DOMAIN compose_config.services = {"default"}
\* ------------------------------------------------ properties of the loader

C27_Given(opt) == opt # Absent

C27_TaskParam == C27_Given(kwargs.task_git_url) \/ C27_Given(kwargs.task_git_commit_id)

C27_OtherDatasetParam ==
    \/ C27_Given(kwargs.registry_url)
    \/ C27_Given(kwargs.registry_path)
    \/ C27_Given(kwargs.dataset_task_names)
    \/ C27_Given(kwargs.dataset_exclude_task_names)

C27_DatasetParam == C27_Given(kwargs.dataset_name_version) \/ C27_OtherDatasetParam

\* the four combinations that are rejected
C27_Rejected ==
    \/ C27_TaskParam /\ C27_DatasetParam
    \/ C27_TaskParam /\ ~C27_Given(kwargs.path)
    \/ /\ C27_OtherDatasetParam
       /\ ~C27_Given(kwargs.dataset_name_version)
       /\ ~C27_Given(kwargs.path)
    \/ ~C27_Given(kwargs.path) /\ ~C27_TaskParam /\ ~C27_DatasetParam

\* the loader of an accepted combination
C27_Loader ==
    IF C27_Given(kwargs.path) /\ C27_Given(kwargs.task_git_url) THEN "_load_git_task"
    ELSE IF C27_Given(kwargs.path) THEN "_load_local_path"
    ELSE "_load_from_registry"

C27_Outcome ==
    IF C27_Rejected
    THEN load_result.kind = "raise" /\ load_result.exc = "ValueError" /\ load_result.calls = <<>>
    ELSE load_result.calls = <<C27_Loader>>

\* C27: load_harbor_tasks raises ValueError, calling no loader, for a task
\* parameter with a dataset parameter, a task parameter without path, a
\* dataset parameter other than dataset_name_version with neither
\* dataset_name_version nor path, and no parameter at all; otherwise it calls
\* exactly one loader: git for path with task_git_url, local for path without
\* task_git_url, registry for dataset_name_version without path.
C27_Dispatch ==
    load_result.kind # "none" => C27_Outcome

\* the same for calls whose task_git_url is not the empty string
C27_DispatchNonEmptyUrl ==
    (load_result.kind # "none" /\ kwargs.task_git_url # Some("")) => C27_Outcome
\* ------------------------------------------ properties of the scoring run

\* the lifecycle step a sandbox call belongs to
Phase(c) ==
    CASE c.op = "write_file"          -> 1
      [] IsExec(c, <<"bash", "-l">>)  -> 2
      [] c.op = "read_file"           -> 3
      [] IsExec(c, <<"rm", "-rf">>)   -> 4
      [] OTHER                        -> 0

PhaseCalls(n) == {i \in 1..Len(calls) : Phase(calls[i]) = n}

\* where the files of the tests directory go in the sandbox
TestTargets == {ContainerPath(TestsRoot, f) : f \in FilesUnder(tests_dir)}

C28_Ordered ==
    /\ \A i \in 1..Len(calls) : Phase(calls[i]) # 0
    /\ \A i, j \in 1..Len(calls) : i < j => Phase(calls[i]) <= Phase(calls[j])
    /\ \A i \in PhaseCalls(2) :
          /\ PhaseCalls(2) = {i}
          /\ i = Cardinality(FilesUnder(tests_dir)) + 1
          /\ {calls[j].path : j \in 1..(i - 1)} = TestTargets
    /\ PhaseCalls(3) # {} =>
          /\ PhaseCalls(2) # {}
          /\ result.raised = "none"
    /\ PhaseCalls(4) # {} =>
          /\ PhaseCalls(3) # {}
          /\ parsed.kind = "return"
          /\ pc \in {"cleanup", "done", "raised"}
          /\ pc # "raised" => outcome.kind = "score"
          /\ [k \in 1..Cardinality(PhaseCalls(4)) |->
                 calls[Cardinality(PhaseCalls(1) \cup PhaseCalls(2) \cup PhaseCalls(3)) + k].path]
             \in {<<TestsRoot>>, <<TestsRoot, VerifierLogs>>}

\* a step issues at most one sandbox call, after the calls made so far
C28_OneCall ==
    \/ calls' = calls
    \/ calls' = <<>>
    \/ Len(calls') = Len(calls) + 1 /\ SubSeq(calls', 1, Len(calls)) = calls

\* C28: within one scoring run the steps come in the order copy-tests,
\* execute-verifier, read-reward, cleanup: the verifier is executed only
\* after every file of the tests directory has been written, a reward file
\* is read only after the verifier exec has returned, /tests and
\* /logs/verifier are removed only after the reward has been read and the
\* score built, and every step issues one call after the previous ones.
C28_Lifecycle == [](C28_Ordered) /\ [][C28_OneCall]_vars

C28_Witness ==
    /\ pc = "done"
    /\ outcome.kind = "score"
    /\ Cardinality(PhaseCalls(1)) = 2
    /\ PhaseCalls(2) = {3}
    /\ PhaseCalls(3) = {4, 5}
    /\ PhaseCalls(4) = {6, 7}

\* the reward file the parser took the reward from
C29_Source == IF TxtExists THEN "txt" ELSE "json"

\* C29: over any sequence of scoring runs on one sandbox, whatever the agent
\* or an earlier run left under /logs/verifier, the reward of a score comes
\* from a reward file this run's verifier execution has written.
C29_OwnReward ==
    (pc = "cleanup" /\ Len(pending) = 2) => C29_Source \in written

\* the value the content of the reward files determines
C30_Value ==
    IF TxtExists THEN NumeralValue(sbx.txt.text)
    ELSE CoercedValue(SelectedOf(sbx.json.text.members))

\* C30: the verifier's exit code does not influence the score: value and
\* PASS/FAIL label are those the content of the reward file read determines,
\* whatever the exit code (a nonzero exit with a positive reward is PASS);
\* the exit code is found in the explanation of the score and in the
\* reward-not-found error only.
C30_ExitCodeNoInfluence ==
    /\ (pc = "cleanup" /\ Len(pending) = 2) =>
          /\ outcome.value = C30_Value
          /\ outcome.answer = (IF C30_Value > 0 THEN "PASS" ELSE "FAIL")
    /\ outcome.kind = "score" =>
          /\ outcome.code = {result.returncode}
          /\ outcome.answer = (IF outcome.value > 0 THEN "PASS" ELSE "FAIL")
    /\ (parsed.kind = "raise" /\ pc \in {"parsed", "raised"}) =>
          IF parsed.exc = "RewardFileNotFoundError"
          THEN parsed.code = {result.returncode}
          ELSE parsed.code = {}

\* a nonzero exit with a positive reward
C30_Witness ==
    /\ pc = "cleanup" /\ Len(pending) = 2
    /\ result.returncode = 1
    /\ outcome.value > 0
    /\ outcome.answer = "PASS"

\* the same reward with a zero exit
C30_WitnessZeroExit ==
    /\ pc = "cleanup" /\ Len(pending) = 2
    /\ result.returncode = 0
    /\ outcome.value > 0
    /\ outcome.answer = "PASS"

=============================================================================
